---- MODULE Spec2Model ----
(***************************************************************************)
(* Model of the DiMA stage orchestration core:                             *)
(*   pipeline/registry.py       ComponentRegistry                          *)
(*   pipeline/plugin_loader.py  load_plugin_from_path / _package / plugins *)
(*   pipeline/orchestrator.py   PipelineOrchestrator                       *)
(*   run_pipeline.py            the command line entry point               *)
(* Python dicts are functions whose DOMAIN is the set of keys present; a   *)
(* dict whose insertion order is observable is a sequence of key/value     *)
(* records.                                                                *)
(***************************************************************************)
EXTENDS Integers, Sequences, FiniteSets, TLC

(* ---------------------------------------------------------------------- *)
(* Bounds of the model                                                     *)
(* ---------------------------------------------------------------------- *)
MaxStages == 2

MaxPlugins == 1

(* ---------------------------------------------------------------------- *)
(* Python dict helpers                                                     *)
(* ---------------------------------------------------------------------- *)
EmptyDict == [k \in {} |-> TRUE]

DictSet(d, k, v) == [x \in (DOMAIN d) \cup {k} |-> IF x = k THEN v ELSE d[x]]

DictDel(d, k) == [x \in (DOMAIN d) \ {k} |-> d[x]]

DictGet(d, k, default) == IF k \in DOMAIN d THEN d[k] ELSE default

(* insertion-ordered dict: a sequence of [k, v] records with distinct keys *)
OKeys(od) == [n \in 1..Len(od) |-> od[n].k]

OHas(od, k) == \E n \in 1..Len(od) : od[n].k = k

OGet(od, k) == od[CHOOSE n \in 1..Len(od) : od[n].k = k].v

OSet(od, k, v) ==
    IF OHas(od, k)
    THEN [n \in 1..Len(od) |-> IF od[n].k = k THEN [k |-> k, v |-> v] ELSE od[n]]
    ELSE Append(od, [k |-> k, v |-> v])

SeqsUpTo(S, n) == UNION {[1..m -> S] : m \in 0..n}

Range(s) == {s[n] : n \in 1..Len(s)}

(* ---------------------------------------------------------------------- *)
(* pipeline/registry.py                                                    *)
(* ---------------------------------------------------------------------- *)
VALID_CATEGORIES == <<"encoder", "decoder", "metric", "stage", "dataset">>

CategorySet == Range(VALID_CATEGORIES)

(* ComponentRegistry.__init__ *)
NewRegistry == [cat \in CategorySet |-> EmptyDict]

(* a register without the check of the name *)
Register_NoNameCheck(reg, category, name, cls, overwrite) ==
    IF category \notin CategorySet
    THEN [err |-> "ValueError: invalid category", reg |-> reg]
    ELSE IF name \in DOMAIN reg[category] /\ ~overwrite
    THEN [err |-> "ValueError: already registered", reg |-> reg]
    ELSE [err |-> "none", reg |-> [reg EXCEPT ![category] = DictSet(@, name, cls)]]

(* a register that replaces an existing entry whatever the overwrite flag *)
Register_AlwaysOverwrites(reg, category, name, cls, overwrite) ==
    IF category \notin CategorySet
    THEN [err |-> "ValueError: invalid category", reg |-> reg]
    ELSE IF name = ""
    THEN [err |-> "ValueError: invalid name", reg |-> reg]
    ELSE [err |-> "none", reg |-> [reg EXCEPT ![category] = DictSet(@, name, cls)]]

(* ComponentRegistry.register: the error raised ("none" when it returns)   *)
(* and the table afterwards                                                *)
Register(reg, category, name, cls, overwrite) ==
    IF category \notin CategorySet
    THEN [err |-> "ValueError: invalid category", reg |-> reg]
    ELSE IF name = ""
    THEN [err |-> "ValueError: invalid name", reg |-> reg]
    ELSE IF name \in DOMAIN reg[category] /\ ~overwrite
    THEN [err |-> "ValueError: already registered", reg |-> reg]
    ELSE [err |-> "none", reg |-> [reg EXCEPT ![category] = DictSet(@, name, cls)]]

(* a has that looks the name up in every category *)
Has_AnyCategory(reg, category, name) ==
    \E cat \in DOMAIN reg : name \in DOMAIN reg[cat]

(* ComponentRegistry.has *)
Has(reg, category, name) ==
    IF category \notin CategorySet THEN FALSE ELSE name \in DOMAIN reg[category]

(* ComponentRegistry.get *)
Get(reg, category, name) ==
    IF category \notin CategorySet
    THEN [err |-> "ValueError: invalid category", cls |-> "", available |-> {}]
    ELSE IF name \notin DOMAIN reg[category]
    THEN [err |-> "KeyError: not registered", cls |-> "",
          available |-> DOMAIN reg[category]]
    ELSE [err |-> "none", cls |-> reg[category][name], available |-> {}]

(* an unregister that empties the name's whole category *)
Unregister_WholeCategory(reg, category, name) ==
    IF category \in DOMAIN reg /\ name \in DOMAIN reg[category]
    THEN [reg EXCEPT ![category] = EmptyDict]
    ELSE reg

(* ComponentRegistry.unregister *)
Unregister(reg, category, name) ==
    IF category \in DOMAIN reg /\ name \in DOMAIN reg[category]
    THEN [reg EXCEPT ![category] = DictDel(@, name)]
    ELSE reg

(* a clear() that leaves the stage category as it is *)
ClearAll_KeepsStages(reg) ==
    [cat \in DOMAIN reg |-> IF cat = "stage" THEN reg[cat] ELSE EmptyDict]

(* ComponentRegistry.clear(), category None *)
ClearAll(reg) == [cat \in DOMAIN reg |-> EmptyDict]

(* a clear(category) that empties every category *)
ClearCategory_Everything(reg, category) == [cat \in DOMAIN reg |-> EmptyDict]

(* ComponentRegistry.clear(category) *)
ClearCategory(reg, category) ==
    IF category \in DOMAIN reg
    THEN [reg EXCEPT ![category] = EmptyDict]
    ELSE reg

(* ---------------------------------------------------------------------- *)
(* pipeline/plugin_loader.py                                               *)
(* ---------------------------------------------------------------------- *)
PluginLoadErrors ==
    {"PluginLoadError: not found", "PluginLoadError: must be a .py file",
     "PluginLoadError: error executing", "PluginLoadError: must define register",
     "PluginLoadError: error in register", "PluginLoadError: could not import",
     "PluginLoadError: must have path or package"}

(* A plugin file path, split the way os.path.basename/splitext split it.   *)
ExamplePluginPath == [dir |-> "pipeline/tests", stem |-> "example_plugin", ext |-> ".py"]

NonexistentPath == [dir |-> "/nonexistent", stem |-> "plugin", ext |-> ".py"]

(* The files the loader tests write: a plugin registering one encoder, a   *)
(* file without register, a file with a syntax error, a plugin whose       *)
(* register raises and a file that is not a .py file. The file without     *)
(* register has the base name of the encoder plugin, in another directory. *)
EncoderPluginPath == [dir |-> "plugins", stem |-> "my_plugin", ext |-> ".py"]

NoRegisterPath == [dir |-> "other_plugins", stem |-> "my_plugin", ext |-> ".py"]

SyntaxErrorPath == [dir |-> "plugins", stem |-> "syntax_error", ext |-> ".py"]

RegisterRaisesPath == [dir |-> "plugins", stem |-> "register_raises", ext |-> ".py"]

TextFilePath == [dir |-> "plugins", stem |-> "notes", ext |-> ".txt"]

(* A plugin whose register registers one encoder and then raises.          *)
PartialPluginPath == [dir |-> "plugins", stem |-> "partial", ext |-> ".py"]

PartialPluginRegister ==
    << [category |-> "encoder", name |-> "partial_enc",
        cls |-> "PartialEncoder", overwrite |-> FALSE] >>

(* register() of the encoder plugin of test_load_valid_plugin              *)
EncoderPluginRegister ==
    << [category |-> "encoder", name |-> "test_enc",
        cls |-> "MyEncoder", overwrite |-> FALSE] >>

(* register() of pipeline/tests/example_plugin.py: its registry calls      *)
ExamplePluginRegister ==
    << [category |-> "metric", name |-> "avg_seq_length",
        cls |-> "CustomSequenceLengthMetric", overwrite |-> FALSE],
       [category |-> "stage", name |-> "custom_hello",
        cls |-> "CustomStage", overwrite |-> FALSE] >>

(* What is on disk at a path: whether the file exists, whether its         *)
(* top-level code executes, whether it defines a callable register, the    *)
(* registry calls register makes and whether it raises after them.         *)
NoFile == [exists |-> FALSE, exec_ok |-> FALSE, has_register |-> FALSE,
           calls |-> <<>>, raises |-> FALSE]

FileAt(path) ==
    IF path = ExamplePluginPath
    THEN [exists |-> TRUE, exec_ok |-> TRUE, has_register |-> TRUE,
          calls |-> ExamplePluginRegister, raises |-> FALSE]
    ELSE IF path = EncoderPluginPath
    THEN [exists |-> TRUE, exec_ok |-> TRUE, has_register |-> TRUE,
          calls |-> EncoderPluginRegister, raises |-> FALSE]
    ELSE IF path = NoRegisterPath
    THEN [exists |-> TRUE, exec_ok |-> TRUE, has_register |-> FALSE,
          calls |-> <<>>, raises |-> FALSE]
    ELSE IF path = SyntaxErrorPath
    THEN [exists |-> TRUE, exec_ok |-> FALSE, has_register |-> FALSE,
          calls |-> <<>>, raises |-> FALSE]
    ELSE IF path = RegisterRaisesPath
    THEN [exists |-> TRUE, exec_ok |-> TRUE, has_register |-> TRUE,
          calls |-> <<>>, raises |-> TRUE]
    ELSE IF path = TextFilePath
    THEN [exists |-> TRUE, exec_ok |-> FALSE, has_register |-> FALSE,
          calls |-> <<>>, raises |-> FALSE]
    ELSE IF path = PartialPluginPath
    THEN [exists |-> TRUE, exec_ok |-> TRUE, has_register |-> TRUE,
          calls |-> PartialPluginRegister, raises |-> TRUE]
    ELSE NoFile

(* module.register(reg): the calls in order; the first call that raises    *)
(* ends register with that error, keeping what was registered before it.   *)
RECURSIVE CallRegister(_, _, _)
CallRegister(calls, raises, reg) ==
    IF calls = <<>>
    THEN [err |-> IF raises THEN "RuntimeError" ELSE "none", reg |-> reg]
    ELSE LET c == Head(calls)
             r == Register(reg, c.category, c.name, c.cls, c.overwrite)
         IN  IF r.err # "none"
             THEN r
             ELSE CallRegister(Tail(calls), raises, r.reg)

(* full_module_name = f"dima_plugin_{module_name}" *)
FullModuleName(path) == <<"dima_plugin_", path.stem>>

(* a load_plugin_from_path that undoes the registrations of a register     *)
(* that raised                                                             *)
LoadPluginFromPath_Atomic(path, reg, mods) ==
    LET file == FileAt(path)
        full_module_name == FullModuleName(path)
        mods1 == DictSet(mods, full_module_name, path)
        r == CallRegister(file.calls, file.raises, reg)
    IN  IF ~file.exists
        THEN [err |-> "PluginLoadError: not found", name |-> <<>>,
              reg |-> reg, mods |-> mods]
        ELSE IF path.ext # ".py"
        THEN [err |-> "PluginLoadError: must be a .py file", name |-> <<>>,
              reg |-> reg, mods |-> mods]
        ELSE IF ~file.exec_ok
        THEN [err |-> "PluginLoadError: error executing", name |-> <<>>,
              reg |-> reg, mods |-> DictDel(mods1, full_module_name)]
        ELSE IF ~file.has_register
        THEN [err |-> "PluginLoadError: must define register", name |-> <<>>,
              reg |-> reg, mods |-> DictDel(mods1, full_module_name)]
        ELSE IF r.err # "none"
        THEN [err |-> "PluginLoadError: error in register", name |-> <<>>,
              reg |-> reg, mods |-> mods1]
        ELSE [err |-> "none", name |-> full_module_name,
              reg |-> r.reg, mods |-> mods1]

(* a load_plugin_from_path that lets the error of register through *)
LoadPluginFromPath_Unwrapped(path, reg, mods) ==
    LET file == FileAt(path)
        full_module_name == FullModuleName(path)
        mods1 == DictSet(mods, full_module_name, path)
        r == CallRegister(file.calls, file.raises, reg)
    IN  IF ~file.exists
        THEN [err |-> "PluginLoadError: not found", name |-> <<>>,
              reg |-> reg, mods |-> mods]
        ELSE IF path.ext # ".py"
        THEN [err |-> "PluginLoadError: must be a .py file", name |-> <<>>,
              reg |-> reg, mods |-> mods]
        ELSE IF ~file.exec_ok
        THEN [err |-> "PluginLoadError: error executing", name |-> <<>>,
              reg |-> reg, mods |-> DictDel(mods1, full_module_name)]
        ELSE IF ~file.has_register
        THEN [err |-> "PluginLoadError: must define register", name |-> <<>>,
              reg |-> reg, mods |-> DictDel(mods1, full_module_name)]
        ELSE IF r.err # "none"
        THEN [err |-> r.err, name |-> <<>>, reg |-> r.reg, mods |-> mods1]
        ELSE [err |-> "none", name |-> full_module_name,
              reg |-> r.reg, mods |-> mods1]

(* load_plugin_from_path: error, returned module name, registry and        *)
(* sys.modules afterwards                                                  *)
LoadPluginFromPath(path, reg, mods) ==
    LET file == FileAt(path)
        full_module_name == FullModuleName(path)
        mods1 == DictSet(mods, full_module_name, path)
        r == CallRegister(file.calls, file.raises, reg)
    IN  IF ~file.exists
        THEN [err |-> "PluginLoadError: not found", name |-> <<>>,
              reg |-> reg, mods |-> mods]
        ELSE IF path.ext # ".py"
        THEN [err |-> "PluginLoadError: must be a .py file", name |-> <<>>,
              reg |-> reg, mods |-> mods]
        ELSE IF ~file.exec_ok
        THEN [err |-> "PluginLoadError: error executing", name |-> <<>>,
              reg |-> reg, mods |-> DictDel(mods1, full_module_name)]
        ELSE IF ~file.has_register
        THEN [err |-> "PluginLoadError: must define register", name |-> <<>>,
              reg |-> reg, mods |-> DictDel(mods1, full_module_name)]
        ELSE IF r.err # "none"
        THEN [err |-> "PluginLoadError: error in register", name |-> <<>>,
              reg |-> r.reg, mods |-> mods1]
        ELSE [err |-> "none", name |-> full_module_name,
              reg |-> r.reg, mods |-> mods1]

(* An installed package whose top-level code raises an exception that is   *)
(* not an ImportError.                                                     *)
BrokenPackage == "dima_plugin_broken"

(* The package named in the docstring of load_plugin_from_package, taken   *)
(* as installed and registering one encoder; an installed package without  *)
(* register (the standard library's importlib); an installed package whose *)
(* register raises; a name that is not installed.                          *)
EsmfoldPackage == "dima_plugin_esmfold"

EsmfoldPackageRegister ==
    << [category |-> "encoder", name |-> "esmfold",
        cls |-> "ESMFoldEncoder", overwrite |-> FALSE] >>

NoRegisterPackage == "importlib"

RegisterRaisesPackage == "dima_plugin_raises"

NonexistentPackage == "nonexistent_dima_plugin_xyz"

(* an installed package whose register registers one decoder and then      *)
(* raises                                                                  *)
PartialPackage == "dima_plugin_partial"

PartialPackageRegister ==
    << [category |-> "decoder", name |-> "partial_dec",
        cls |-> "PartialDecoder", overwrite |-> FALSE] >>

(* What importlib.import_module finds for a package name: nothing is       *)
(* installed apart from the packages listed here.                          *)
PackageAt(package_name) ==
    IF package_name = BrokenPackage
    THEN [exists |-> TRUE, exec_ok |-> FALSE, has_register |-> FALSE,
          calls |-> <<>>, raises |-> FALSE]
    ELSE IF package_name = EsmfoldPackage
    THEN [exists |-> TRUE, exec_ok |-> TRUE, has_register |-> TRUE,
          calls |-> EsmfoldPackageRegister, raises |-> FALSE]
    ELSE IF package_name = NoRegisterPackage
    THEN [exists |-> TRUE, exec_ok |-> TRUE, has_register |-> FALSE,
          calls |-> <<>>, raises |-> FALSE]
    ELSE IF package_name = RegisterRaisesPackage
    THEN [exists |-> TRUE, exec_ok |-> TRUE, has_register |-> TRUE,
          calls |-> <<>>, raises |-> TRUE]
    ELSE IF package_name = PartialPackage
    THEN [exists |-> TRUE, exec_ok |-> TRUE, has_register |-> TRUE,
          calls |-> PartialPackageRegister, raises |-> TRUE]
    ELSE NoFile

(* load_plugin_from_package *)
LoadPluginFromPackage(package_name, reg, mods) ==
    LET pkg == PackageAt(package_name)
        mods1 == DictSet(mods, <<package_name>>, [package |-> package_name])
        r == CallRegister(pkg.calls, pkg.raises, reg)
    IN  IF ~pkg.exists
        THEN [err |-> "PluginLoadError: could not import", name |-> <<>>,
              reg |-> reg, mods |-> mods]
        ELSE IF ~pkg.exec_ok
        THEN [err |-> "RuntimeError", name |-> <<>>, reg |-> reg, mods |-> mods]
        ELSE IF ~pkg.has_register
        THEN [err |-> "PluginLoadError: must define register", name |-> <<>>,
              reg |-> reg, mods |-> mods1]
        ELSE IF r.err # "none"
        THEN [err |-> "PluginLoadError: error in register", name |-> <<>>,
              reg |-> r.reg, mods |-> mods1]
        ELSE [err |-> "none", name |-> <<package_name>>,
              reg |-> r.reg, mods |-> mods1]

(* a load_plugins that goes on to the later descriptors after a failure    *)
(* and raises the first error at the end                                   *)
RECURSIVE LoadPlugins_SkipFailures(_, _, _, _)
LoadPlugins_SkipFailures(plugin_configs, reg, mods, loaded) ==
    IF plugin_configs = <<>>
    THEN [err |-> "none", loaded |-> loaded, reg |-> reg, mods |-> mods]
    ELSE LET plugin_cfg == Head(plugin_configs)
             r == IF "path" \in DOMAIN plugin_cfg
                  THEN LoadPluginFromPath(plugin_cfg.path, reg, mods)
                  ELSE IF "package" \in DOMAIN plugin_cfg
                  THEN LoadPluginFromPackage(plugin_cfg.package, reg, mods)
                  ELSE [err |-> "PluginLoadError: must have path or package",
                        name |-> <<>>, reg |-> reg, mods |-> mods]
             rest == LoadPlugins_SkipFailures(Tail(plugin_configs), r.reg, r.mods,
                         IF r.err = "none" THEN Append(loaded, r.name) ELSE loaded)
         IN  IF r.err # "none" THEN [rest EXCEPT !.err = r.err] ELSE rest

(* load_plugins: the for loop over plugin_configs, from the state reached  *)
(* after the descriptors already processed                                 *)
RECURSIVE LoadPlugins(_, _, _, _)
LoadPlugins(plugin_configs, reg, mods, loaded) ==
    IF plugin_configs = <<>>
    THEN [err |-> "none", loaded |-> loaded, reg |-> reg, mods |-> mods]
    ELSE LET plugin_cfg == Head(plugin_configs)
             r == IF "path" \in DOMAIN plugin_cfg
                  THEN LoadPluginFromPath(plugin_cfg.path, reg, mods)
                  ELSE IF "package" \in DOMAIN plugin_cfg
                  THEN LoadPluginFromPackage(plugin_cfg.package, reg, mods)
                  ELSE [err |-> "PluginLoadError: must have path or package",
                        name |-> <<>>, reg |-> reg, mods |-> mods]
         IN  IF r.err # "none"
             THEN [err |-> r.err, loaded |-> loaded, reg |-> r.reg, mods |-> r.mods]
             ELSE LoadPlugins(Tail(plugin_configs), r.reg, r.mods,
                              Append(loaded, r.name))

(* ---------------------------------------------------------------------- *)
(* pipeline/stages: the built-in stages and the stage contract             *)
(* ---------------------------------------------------------------------- *)
(* the @registry.register_stage decorators, in the import order of         *)
(* pipeline/stages/__init__.py                                             *)
BuiltinStages ==
    << [name |-> "setup_data", cls |-> "SetupDataStage"],
       [name |-> "setup_models", cls |-> "SetupModelsStage"],
       [name |-> "calculate_statistics", cls |-> "CalculateStatisticsStage"],
       [name |-> "train_decoder", cls |-> "TrainDecoderStage"],
       [name |-> "train_diffusion", cls |-> "TrainDiffusionStage"],
       [name |-> "run_inference", cls |-> "RunInferenceStage"],
       [name |-> "evaluate_metrics", cls |-> "EvaluateMetricsStage"] >>

(* `import pipeline.stages`: every stage module not yet imported is        *)
(* executed, its decorator registering the class without overwrite; a      *)
(* module whose execution raises is not kept in sys.modules and ends the   *)
(* import.                                                                 *)
RECURSIVE ImportStages(_, _, _)
ImportStages(todo, reg, imported) ==
    IF todo = <<>>
    THEN [err |-> "none", reg |-> reg, imported |-> imported]
    ELSE LET b == Head(todo)
             r == Register(reg, "stage", b.name, b.cls, FALSE)
         IN  IF b.name \in imported
             THEN ImportStages(Tail(todo), reg, imported)
             ELSE IF r.err # "none"
             THEN [err |-> r.err, reg |-> reg, imported |-> imported]
             ELSE ImportStages(Tail(todo), r.reg, imported \cup {b.name})

(* A context value: a dict, or a value that is no dict (None).             *)
Dict(d) == [isdict |-> TRUE, d |-> d]

NoneValue == [isdict |-> FALSE, d |-> EmptyDict]

HasKey(ctx, k) == ctx.isdict /\ k \in DOMAIN ctx.d

(* the hydra_config the command line passes (None), read as                *)
(* `self.hydra_config or {}`                                               *)
HydraConfig == EmptyDict

(* the context key a stage's run writes, and the value it writes           *)
OutputKey(cls) ==
    IF cls = "CustomStage" THEN "custom_hello_ran"
    ELSE IF cls = "StageA" THEN "step_a"
    ELSE IF cls = "StageB" THEN "step_b"
    ELSE "data_dir"

OutputValue(cls) ==
    IF cls = "CustomStage" THEN "True"
    ELSE IF cls \in {"StageA", "StageB"} THEN "done"
    ELSE "./data"

(* the stage classes StageA and StageB of the integration tests            *)
TestStages == {"StageA", "StageB"}

(* their run: context[key] = "done", the counter raised, the same dict     *)
(* returned                                                                *)
TestStageRun(cls, d) ==
    DictSet(DictSet(d, OutputKey(cls), OutputValue(cls)),
            "counter", DictGet(d, "counter", 0) + 1)

(* stage.validate(config, context) -> list of issues                       *)
StageValidate(cls, config, ctx) ==
    IF cls = "SetupDataStage"
    THEN IF "datasets" \notin DOMAIN config
         THEN <<"No 'datasets' section in config">>
         ELSE <<>>
    ELSE IF cls = "StageB"
    THEN IF ~HasKey(ctx, "step_a")
         THEN <<"stage_a must run first">>
         ELSE <<>>
    ELSE <<>>

(* stage.validate(config, context) raising: none of the built-in stages    *)
(* and of the example plugin's does for the command line's config; a stage *)
(* of class RaisingStage stands for a plugin stage whose validate raises   *)
ValidateRaises(cls, config, ctx) == cls = "RaisingStage"

(* stage.run(config, context) returning: the values it may return. The     *)
(* stage writes its key in place and returns the same dict, or returns a   *)
(* dict of its own that lacks the earlier keys, or returns None. The       *)
(* example plugin's CustomStage.run is `context["custom_hello_ran"] = True; *)
(* return context`: it returns the dict it was given and nothing else.     *)
RunReturns(cls, ctx) ==
    IF cls = "CustomStage"
    THEN IF ctx.isdict
         THEN {Dict(DictSet(ctx.d, OutputKey(cls), OutputValue(cls)))}
         ELSE {}
    ELSE IF cls \in TestStages
    THEN IF ctx.isdict THEN {Dict(TestStageRun(cls, ctx.d))} ELSE {}
    ELSE (IF ctx.isdict
          THEN {Dict(DictSet(ctx.d, OutputKey(cls), OutputValue(cls)))}
          ELSE {})
         \cup {Dict(DictSet(EmptyDict, OutputKey(cls), OutputValue(cls))), NoneValue}

(* stage.run(config, context) raising: the states it may leave the passed  *)
(* context object in (untouched, or with its key already written).         *)
(* CustomStage.run raises only when the context is None, on the item       *)
(* assignment.                                                             *)
RunRaises(cls, ctx) ==
    IF cls \in {"CustomStage"} \cup TestStages
    THEN IF ctx.isdict THEN {} ELSE {ctx}
    ELSE {ctx} \cup
         (IF ctx.isdict
          THEN {Dict(DictSet(ctx.d, OutputKey(cls), OutputValue(cls)))}
          ELSE {})

(* ---------------------------------------------------------------------- *)
(* pipeline/orchestrator.py                                                *)
(* ---------------------------------------------------------------------- *)
VARIABLES
    pipeline_config,  \* self.pipeline_config
    dry_run,          \* self.dry_run
    context,          \* self.context
    registry,         \* the global registry's _components
    sys_modules,      \* the plugin entries of sys.modules
    stages_imported,  \* the stage modules of pipeline.stages in sys.modules
    pc,               \* where the caller / run() stands
    error,            \* the exception run() ended with ("none" otherwise)
    enabled_stages,   \* run()'s enabled_stages, as indices into the stage list
    idx,              \* the for loop's position in enabled_stages
    results,          \* run()'s results dict (insertion ordered)
    issues,           \* what validate() returned in this run
    stage_state,      \* per configured stage spec: its state in this run
    attempted,        \* the stage specs whose resolution started, in order
    validated,        \* the stage specs validate() resolved in this run, in order
    passed,           \* per stage spec: the context its run was called with
    returned_by,      \* per stage spec: the value its run returned
    entry_context,    \* self.context when run() was called
    last_call,        \* the last direct call of a registry method and its outcome
    stored,           \* per (category, name): the component last stored and not removed
    document_exists,  \* run_pipeline.main: whether the file at args.pipeline exists
    exit_status,      \* run_pipeline.main: the process's exit status, -1 while it runs
    runs              \* the run() calls that have ended in this interpreter

vars == <<pipeline_config, dry_run, context, registry, sys_modules,
          stages_imported, pc, error, enabled_stages, idx, results, issues,
          stage_state, attempted, validated, passed, returned_by, entry_context,
          last_call, stored, document_exists, exit_status, runs>>

Stages == DictGet(pipeline_config, "stages", <<>>)

(* enabled.insert(0, stage_cfg) in place of enabled.append(stage_cfg)       *)
RECURSIVE EnabledFrom_Prepend(_, _)
EnabledFrom_Prepend(stages_config, n) ==
    IF n > Len(stages_config)
    THEN <<>>
    ELSE IF DictGet(stages_config[n], "enabled", TRUE)
         THEN EnabledFrom_Prepend(stages_config, n + 1) \o <<n>>
         ELSE EnabledFrom_Prepend(stages_config, n + 1)

(* stage_cfg.get("enabled", False) in place of stage_cfg.get("enabled", True) *)
RECURSIVE EnabledFrom_NeedsFlag(_, _)
EnabledFrom_NeedsFlag(stages_config, n) ==
    IF n > Len(stages_config)
    THEN <<>>
    ELSE IF DictGet(stages_config[n], "enabled", FALSE)
         THEN <<n>> \o EnabledFrom_NeedsFlag(stages_config, n + 1)
         ELSE EnabledFrom_NeedsFlag(stages_config, n + 1)

(* _get_enabled_stages: the enabled specs, as their positions in the list  *)
RECURSIVE EnabledFrom(_, _)
EnabledFrom(stages_config, n) ==
    IF n > Len(stages_config)
    THEN <<>>
    ELSE IF DictGet(stages_config[n], "enabled", TRUE)
         THEN <<n>> \o EnabledFrom(stages_config, n + 1)
         ELSE EnabledFrom(stages_config, n + 1)

GetEnabledStages(config) == EnabledFrom(DictGet(config, "stages", <<>>), 1)

(* _resolve_stage: ValueError unless the registry has the stage            *)
ResolveStage(reg, stage_name) ==
    IF ~Has(reg, "stage", stage_name)
    THEN [err |-> "ValueError: not found in registry", cls |-> ""]
    ELSE [err |-> "none", cls |-> Get(reg, "stage", stage_name).cls]

(* a validate() that keeps the empty issue list of a stage without issues *)
RECURSIVE ValidateFrom_KeepsEmpty(_, _, _, _, _)
ValidateFrom_KeepsEmpty(stages_config, enabled, reg, ctx, all_issues) ==
    IF enabled = <<>>
    THEN all_issues
    ELSE LET name == stages_config[Head(enabled)].name
             r == ResolveStage(reg, name)
             found == StageValidate(r.cls, HydraConfig, ctx)
         IN  ValidateFrom_KeepsEmpty(stages_config, Tail(enabled), reg, ctx,
                 IF r.err # "none" \/ ValidateRaises(r.cls, HydraConfig, ctx)
                 THEN OSet(all_issues, name, <<"Error resolving stage">>)
                 ELSE OSet(all_issues, name, found))

(* validate(): the loop over the enabled stages                            *)
RECURSIVE ValidateFrom(_, _, _, _, _)
ValidateFrom(stages_config, enabled, reg, ctx, all_issues) ==
    IF enabled = <<>>
    THEN all_issues
    ELSE LET name == stages_config[Head(enabled)].name
             r == ResolveStage(reg, name)
             found == StageValidate(r.cls, HydraConfig, ctx)
         IN  ValidateFrom(stages_config, Tail(enabled), reg, ctx,
                 IF r.err # "none" \/ ValidateRaises(r.cls, HydraConfig, ctx)
                 THEN OSet(all_issues, name, <<"Error resolving stage">>)
                 ELSE IF found # <<>>
                 THEN OSet(all_issues, name, found)
                 ELSE all_issues)

Validate(config, reg, ctx) ==
    ValidateFrom(DictGet(config, "stages", <<>>), GetEnabledStages(config),
                 reg, ctx, <<>>)

(* run() lines 136-147: the pipeline-level context                         *)
RECURSIVE StageParams(_, _, _)
StageParams(stages_config, enabled, acc) ==
    IF enabled = <<>>
    THEN acc
    ELSE LET stage_cfg == stages_config[Head(enabled)]
             params == DictGet(stage_cfg, "params", EmptyDict)
         IN  StageParams(stages_config, Tail(enabled),
                 IF params # EmptyDict
                 THEN DictSet(acc, stage_cfg.name, params)
                 ELSE acc)

(* a seeding that takes the params of every configured stage spec, the     *)
(* disabled ones included                                                  *)
SeedContext_AllStages(config, enabled, d) ==
    LET stages_config == DictGet(config, "stages", <<>>)
        d1 == DictSet(d, "config_path", DictGet(config, "config_path", "../configs"))
        d2 == DictSet(d1, "stage_params",
                      StageParams(stages_config,
                                  [n \in 1..Len(stages_config) |-> n], EmptyDict))
        hydra_overrides == DictGet(config, "hydra_overrides", <<>>)
    IN  IF hydra_overrides # <<>>
        THEN DictSet(d2, "hydra_overrides", hydra_overrides)
        ELSE d2

(* a seeding that starts from an empty dict instead of the context *)
SeedContext_Fresh(config, enabled, d) ==
    LET d1 == DictSet(EmptyDict, "config_path", DictGet(config, "config_path", "../configs"))
        d2 == DictSet(d1, "stage_params",
                      StageParams(DictGet(config, "stages", <<>>), enabled, EmptyDict))
        hydra_overrides == DictGet(config, "hydra_overrides", <<>>)
    IN  IF hydra_overrides # <<>>
        THEN DictSet(d2, "hydra_overrides", hydra_overrides)
        ELSE d2

(* run() lines 136-147: the pipeline-level keys written into the context  *)
SeedContext(config, enabled, d) ==
    LET d1 == DictSet(d, "config_path", DictGet(config, "config_path", "../configs"))
        d2 == DictSet(d1, "stage_params",
                      StageParams(DictGet(config, "stages", <<>>), enabled, EmptyDict))
        hydra_overrides == DictGet(config, "hydra_overrides", <<>>)
    IN  IF hydra_overrides # <<>>
        THEN DictSet(d2, "hydra_overrides", hydra_overrides)
        ELSE d2

(* ---------------------------------------------------------------------- *)
(* The pipeline documents and callers the model runs                       *)
(* ---------------------------------------------------------------------- *)
StageNames == {"setup_data", "custom_hello"}

(* a stage spec; enabled and on_failure are left out of the spec when      *)
(* given as "absent"; setup_data is configured with params, the plugin's   *)
(* stage without                                                           *)
StageSpec(name, enabled, on_failure) ==
    LET base == IF name = "setup_data"
                THEN [name |-> name, params |-> [max_sequence_len |-> "254"]]
                ELSE [name |-> name]
        withEnabled == IF enabled = "absent" THEN base
                       ELSE DictSet(base, "enabled", enabled = "true")
    IN  IF on_failure = "absent" THEN withEnabled
        ELSE DictSet(withEnabled, "on_failure", on_failure)

(* a disabled spec's policy is never read: it is drawn without one *)
StageSpecs ==
    {StageSpec(n, "absent", f) : n \in StageNames, f \in {"absent", "abort", "continue"}}
    \cup {StageSpec(n, "false", "absent") : n \in StageNames}

PluginDescriptors ==
    {[path |-> ExamplePluginPath], [path |-> NonexistentPath],
     [package |-> BrokenPackage]}

(* the optional top-level fields of the document: none, or all of them     *)
PipelineConfigs ==
    {[stages |-> st, plugins |-> pl] :
        st \in SeqsUpTo(StageSpecs, MaxStages),
        pl \in SeqsUpTo(PluginDescriptors, MaxPlugins)}
    \cup
    {[stages |-> st, plugins |-> pl, config_path |-> "conf",
      hydra_overrides |-> <<"datasets=swissprot">>] :
        st \in SeqsUpTo(StageSpecs, MaxStages),
        pl \in SeqsUpTo(PluginDescriptors, MaxPlugins)}

(* the command lines that inject into the context before run()             *)
CliArgs == {[checkpoint |-> "model.pth", num_gpus |-> 1]}

Pending(config) ==
    [n \in 1..Len(DictGet(config, "stages", <<>>)) |-> "pending"]

NotPassed == [called |-> FALSE, ctx |-> NoneValue]

NoContexts(config) ==
    [n \in 1..Len(DictGet(config, "stages", <<>>)) |-> NotPassed]

(* no registry method has been called directly *)
NoCall == [op |-> "none", seq |-> 0]

(* PipelineOrchestrator.__init__ in a fresh interpreter                    *)
Init ==
    /\ pipeline_config \in PipelineConfigs
    /\ dry_run \in BOOLEAN
    /\ context = Dict(EmptyDict)
    /\ registry = NewRegistry
    /\ sys_modules = EmptyDict
    /\ stages_imported = {}
    /\ pc = "constructed"
    /\ error = "none"
    /\ enabled_stages = <<>>
    /\ idx = 0
    /\ results = <<>>
    /\ issues = <<>>
    /\ stage_state = Pending(pipeline_config)
    /\ attempted = <<>>
    /\ validated = <<>>
    /\ passed = NoContexts(pipeline_config)
    /\ returned_by = NoContexts(pipeline_config)
    /\ entry_context = Dict(EmptyDict)
    /\ last_call = NoCall
    /\ stored = EmptyDict
    /\ document_exists = TRUE
    /\ exit_status = -1
    /\ runs = 0

(* run_pipeline.main lines 114-123: the command line's values injected     *)
(* into the context before run()                                           *)
CliInject ==
    /\ pc = "constructed"
    /\ \E args \in CliArgs :
         context' = Dict(DictSet(DictSet(context.d, "checkpoint_path", args.checkpoint),
                                 "num_gpus", args.num_gpus))
    /\ pc' = "injected"
    /\ UNCHANGED <<pipeline_config, dry_run, registry, sys_modules,
                   stages_imported, error, enabled_stages, idx, results,
                   issues, stage_state, attempted, passed, entry_context,
                   validated, returned_by>>
    /\ UNCHANGED <<last_call, stored, document_exists, exit_status, runs>>

(* a run() that goes on without loading the configured plugins *)
RunLoadPlugins_Skipped ==
    /\ pc \in {"constructed", "injected"}
    /\ pc' = "plugins_loaded"
    /\ entry_context' = context
    /\ UNCHANGED <<pipeline_config, dry_run, context, registry, sys_modules,
                   stages_imported, error, enabled_stages, idx, results, issues,
                   stage_state, attempted, passed, validated, returned_by>>
    /\ UNCHANGED <<last_call, stored, document_exists, exit_status, runs>>

(* a run() that loads the configured plugins in the first call only *)
RunLoadPlugins_FirstCallOnly ==
    /\ pc \in {"constructed", "injected"}
    /\ LET plugins == IF runs = 0
                      THEN DictGet(pipeline_config, "plugins", <<>>)
                      ELSE <<>>
           r == LoadPlugins(plugins, registry, sys_modules, <<>>)
       IN  /\ registry' = r.reg
           /\ sys_modules' = r.mods
           /\ IF r.err # "none"
              THEN pc' = "raised" /\ error' = r.err
              ELSE pc' = "plugins_loaded" /\ error' = "none"
    /\ entry_context' = context
    /\ UNCHANGED <<pipeline_config, dry_run, context, stages_imported,
                   enabled_stages, idx, results, issues, stage_state,
                   attempted, passed, validated, returned_by>>
    /\ UNCHANGED <<last_call, stored, document_exists, exit_status, runs>>

(* run() lines 116-121: entry, and _load_plugins                           *)
RunLoadPlugins ==
    /\ pc \in {"constructed", "injected"}
    /\ LET plugins == DictGet(pipeline_config, "plugins", <<>>)
           r == LoadPlugins(plugins, registry, sys_modules, <<>>)
       IN  /\ registry' = r.reg
           /\ sys_modules' = r.mods
           /\ IF r.err # "none"
              THEN pc' = "raised" /\ error' = r.err
              ELSE pc' = "plugins_loaded" /\ error' = "none"
    /\ entry_context' = context
    /\ UNCHANGED <<pipeline_config, dry_run, context, stages_imported,
                   enabled_stages, idx, results, issues, stage_state,
                   attempted, passed, validated, returned_by>>
    /\ UNCHANGED <<last_call, stored, document_exists, exit_status, runs>>

(* run() line 125: import pipeline.stages                                  *)
RunImportStages ==
    /\ pc = "plugins_loaded"
    /\ LET r == ImportStages(BuiltinStages, registry, stages_imported)
       IN  /\ registry' = r.reg
           /\ stages_imported' = r.imported
           /\ IF r.err # "none"
              THEN pc' = "raised" /\ error' = r.err
              ELSE pc' = "stages_imported" /\ error' = "none"
    /\ UNCHANGED <<pipeline_config, dry_run, context, sys_modules,
                   enabled_stages, idx, results, issues, stage_state,
                   attempted, passed, entry_context, validated, returned_by>>
    /\ UNCHANGED <<last_call, stored, document_exists, exit_status, runs>>

(* a run that never short-circuits *)
NothingToDo_Never(enabled) == FALSE

(* run() lines 128-130: if not enabled_stages                              *)
NothingToDo(enabled) == enabled = <<>>

(* run() lines 127-147: the enabled stages, the short-circuit when there   *)
(* are none, and the seeding of the context                                *)
RunSeed ==
    /\ pc = "stages_imported"
    /\ LET enabled == GetEnabledStages(pipeline_config)
       IN  /\ enabled_stages' = enabled
           /\ IF NothingToDo(enabled)
              THEN pc' = "returned" /\ UNCHANGED <<context, error>>
              ELSE IF ~context.isdict
              THEN pc' = "raised" /\ error' = "TypeError" /\ UNCHANGED context
              ELSE /\ context' = Dict(SeedContext(pipeline_config, enabled, context.d))
                   /\ pc' = "seeded"
                   /\ UNCHANGED error
    /\ UNCHANGED <<pipeline_config, dry_run, registry, sys_modules,
                   stages_imported, idx, results, issues, stage_state,
                   attempted, passed, entry_context, validated, returned_by>>
    /\ UNCHANGED <<last_call, stored, document_exists, exit_status, runs>>

(* a run() that goes to the loop without validating *)
RunValidate_Skipped ==
    /\ pc = "seeded"
    /\ ~dry_run
    /\ issues' = <<>>
    /\ validated' = GetEnabledStages(pipeline_config)
    /\ results' = <<>>
    /\ idx' = 1
    /\ pc' = IF enabled_stages # <<>> THEN "next_stage" ELSE "summary"
    /\ UNCHANGED <<pipeline_config, dry_run, context, registry, sys_modules,
                   stages_imported, error, enabled_stages, stage_state,
                   attempted, passed, entry_context, returned_by>>
    /\ UNCHANGED <<last_call, stored, document_exists, exit_status, runs>>

(* a validation whose issues end the run before any stage is attempted *)
RunValidate_Blocks ==
    /\ pc = "seeded"
    /\ ~dry_run
    /\ issues' = Validate(pipeline_config, registry, context)
    /\ validated' = GetEnabledStages(pipeline_config)
    /\ results' = <<>>
    /\ idx' = 1
    /\ pc' = IF issues' # <<>> THEN "returned"
             ELSE IF enabled_stages # <<>> THEN "next_stage" ELSE "summary"
    /\ UNCHANGED <<pipeline_config, dry_run, context, registry, sys_modules,
                   stages_imported, error, enabled_stages, stage_state,
                   attempted, passed, entry_context, returned_by>>
    /\ UNCHANGED <<last_call, stored, document_exists, exit_status, runs>>

(* run() lines 149-158 and 170-172: validate(), whose issues are only      *)
(* printed, then the empty results dict                                    *)
RunValidate ==
    /\ pc = "seeded"
    /\ ~dry_run
    /\ issues' = Validate(pipeline_config, registry, context)
    /\ validated' = GetEnabledStages(pipeline_config)
    /\ results' = <<>>
    /\ idx' = 1
    /\ pc' = IF enabled_stages # <<>> THEN "next_stage" ELSE "summary"
    /\ UNCHANGED <<pipeline_config, dry_run, context, registry, sys_modules,
                   stages_imported, error, enabled_stages, stage_state,
                   attempted, passed, entry_context, returned_by>>
    /\ UNCHANGED <<last_call, stored, document_exists, exit_status, runs>>

(* a dry run whose report is not followed by a return *)
RunDryRun_FallsThrough ==
    /\ pc = "seeded"
    /\ dry_run
    /\ results' = <<>>
    /\ idx' = 1
    /\ pc' = IF enabled_stages # <<>> THEN "next_stage" ELSE "summary"
    /\ UNCHANGED <<pipeline_config, dry_run, context, registry, sys_modules,
                   stages_imported, error, enabled_stages, issues, stage_state,
                   attempted, validated, passed, returned_by, entry_context>>
    /\ UNCHANGED <<last_call, stored, document_exists, exit_status, runs>>

(* run() lines 160-168: the dry run's report and return                    *)
RunDryRun ==
    /\ pc = "seeded"
    /\ dry_run
    /\ pc' = "returned"
    /\ UNCHANGED <<pipeline_config, dry_run, context, registry, sys_modules,
                   stages_imported, error, enabled_stages, idx, results,
                   issues, stage_state, attempted, validated, passed,
                   returned_by, entry_context>>
    /\ UNCHANGED <<last_call, stored, document_exists, exit_status, runs>>

(* a failure policy that goes on only for continue *)
BreaksLoop_UnlessContinue(stage_cfg) ==
    DictGet(stage_cfg, "on_failure", "abort") # "continue"

(* a failure policy that always stops the loop *)
BreaksLoop_Always(stage_cfg) == TRUE

(* a failure policy that never stops the loop *)
BreaksLoop_Never(stage_cfg) == FALSE

(* run() lines 197-200: whether the failed stage's policy breaks the loop  *)
BreaksLoop(stage_cfg) == DictGet(stage_cfg, "on_failure", "abort") = "abort"

(* a loop that stays on the stage it has just finished *)
NextIndex_Retry(i) == i

(* the for loop of run() line 174: the position after iteration i          *)
NextIndex(i) == i + 1

(* the returned dict merged over the previous context *)
AssignContext_Merge(current, returned) ==
    IF current.isdict /\ returned.isdict
    THEN Dict([k \in (DOMAIN current.d) \cup (DOMAIN returned.d) |->
                 IF k \in DOMAIN returned.d THEN returned.d[k] ELSE current.d[k]])
    ELSE returned

(* run() line 183: self.context = stage.run(...)                           *)
AssignContext(current, returned) == returned

(* a results list that appends an entry per attempt *)
RecordResult_Append(res, name, entry) == Append(res, [k |-> name, v |-> entry])

(* run() lines 185 and 189-193: results[name] = {...}                      *)
RecordResult(res, name, entry) == OSet(res, name, entry)

(* the loop moves on: to the next enabled stage, or past the last one to   *)
(* the summary                                                             *)
LoopContinues ==
    IF NextIndex(idx) <= Len(enabled_stages)
    THEN idx' = NextIndex(idx) /\ pc' = "next_stage"
    ELSE idx' = idx /\ pc' = "summary"

(* an except branch that applies the policy without recording the failure *)
StageFailed_Unrecorded(n, err) ==
    /\ results' = results
    /\ stage_state' = [stage_state EXCEPT ![n] = "failed"]
    /\ IF BreaksLoop(Stages[n])
       THEN idx' = idx /\ pc' = "summary"
       ELSE LoopContinues

(* the except branch, lines 187-203                                        *)
StageFailed(n, err) ==
    /\ results' = RecordResult(results, Stages[n].name,
                               [status |-> "failed", error |-> err])
    /\ stage_state' = [stage_state EXCEPT ![n] = "failed"]
    /\ IF BreaksLoop(Stages[n])
       THEN idx' = idx /\ pc' = "summary"
       ELSE LoopContinues

(* run() lines 174-182: an iteration starts and calls _resolve_stage       *)
StageBegin ==
    /\ pc = "next_stage"
    /\ LET n == enabled_stages[idx]
       IN  /\ stage_state' = [stage_state EXCEPT ![n] = "resolving"]
           /\ attempted' = Append(attempted, n)
    /\ pc' = "resolving"
    /\ UNCHANGED <<pipeline_config, dry_run, context, registry, sys_modules,
                   stages_imported, error, enabled_stages, idx, results,
                   issues, passed, entry_context, validated, returned_by>>
    /\ UNCHANGED <<last_call, stored, document_exists, exit_status, runs>>

(* run() lines 182-183: _resolve_stage returns an instance and its run is  *)
(* called with the current context                                         *)
StageResolved ==
    /\ pc = "resolving"
    /\ LET n == enabled_stages[idx]
       IN  /\ ResolveStage(registry, Stages[n].name).err = "none"
           /\ stage_state' = [stage_state EXCEPT ![n] = "running"]
           /\ passed' = [passed EXCEPT ![n] = [called |-> TRUE, ctx |-> context]]
    /\ pc' = "running"
    /\ UNCHANGED <<pipeline_config, dry_run, context, registry, sys_modules,
                   stages_imported, error, enabled_stages, idx, results,
                   issues, attempted, entry_context, validated, returned_by>>
    /\ UNCHANGED <<last_call, stored, document_exists, exit_status, runs>>

(* run() lines 182, 187-203: _resolve_stage raises                         *)
StageUnresolved ==
    /\ pc = "resolving"
    /\ LET n == enabled_stages[idx]
           r == ResolveStage(registry, Stages[n].name)
       IN  /\ r.err # "none"
           /\ StageFailed(n, r.err)
    /\ UNCHANGED <<pipeline_config, dry_run, context, registry, sys_modules,
                   stages_imported, error, enabled_stages, issues, attempted,
                   passed, entry_context, validated, returned_by>>
    /\ UNCHANGED <<last_call, stored, document_exists, exit_status, runs>>

(* run() lines 183-186: the stage's run returns                            *)
StageRunReturns ==
    /\ pc = "running"
    /\ LET n == enabled_stages[idx]
           cls == ResolveStage(registry, Stages[n].name).cls
       IN  /\ \E returned \in RunReturns(cls, context) :
                 /\ context' = AssignContext(context, returned)
                 /\ returned_by' = [returned_by EXCEPT
                                       ![n] = [called |-> TRUE, ctx |-> returned]]
           /\ results' = RecordResult(results, Stages[n].name, [status |-> "success"])
           /\ stage_state' = [stage_state EXCEPT ![n] = "succeeded"]
    /\ LoopContinues
    /\ UNCHANGED <<pipeline_config, dry_run, registry, sys_modules,
                   stages_imported, error, enabled_stages, issues, attempted,
                   passed, entry_context, validated>>
    /\ UNCHANGED <<last_call, stored, document_exists, exit_status, runs>>

(* an except branch that starts the next stage from an empty context *)
ContextAfterFailure_Reset(current, left) == Dict(EmptyDict)

(* run() lines 187-203: the except branch assigns nothing to self.context, *)
(* which is still the object passed to the stage, as the stage left it     *)
ContextAfterFailure(current, left) == left

(* run() lines 183, 187-203: the stage's run raises                        *)
StageRunRaises ==
    /\ pc = "running"
    /\ LET n == enabled_stages[idx]
           cls == ResolveStage(registry, Stages[n].name).cls
       IN  /\ \E left \in RunRaises(cls, context) :
                 context' = ContextAfterFailure(context, left)
           /\ StageFailed(n, "RuntimeError")
    /\ UNCHANGED <<pipeline_config, dry_run, registry, sys_modules,
                   stages_imported, error, enabled_stages, issues, attempted,
                   passed, entry_context, validated, returned_by>>
    /\ UNCHANGED <<last_call, stored, document_exists, exit_status, runs>>

(* run() lines 205-216: the summary, the result map attached, the return   *)
RunSummary ==
    /\ pc = "summary"
    /\ IF context.isdict
       THEN /\ context' = Dict(DictSet(context.d, "pipeline_results", results))
            /\ pc' = "returned"
            /\ UNCHANGED error
       ELSE /\ pc' = "raised"
            /\ error' = "TypeError"
            /\ UNCHANGED context
    /\ UNCHANGED <<pipeline_config, dry_run, registry, sys_modules,
                   stages_imported, enabled_stages, idx, results, issues,
                   stage_state, attempted, passed, entry_context, validated,
                   returned_by>>
    /\ UNCHANGED <<last_call, stored, document_exists, exit_status, runs>>

Next ==
    \/ CliInject
    \/ RunLoadPlugins
    \/ RunImportStages
    \/ RunSeed
    \/ RunValidate
    \/ RunDryRun
    \/ StageBegin
    \/ StageResolved
    \/ StageUnresolved
    \/ StageRunReturns
    \/ StageRunRaises
    \/ RunSummary

Spec == Init /\ [][Next]_vars

(* ---------------------------------------------------------------------- *)
(* A ComponentRegistry instance called directly, as the registry tests do  *)
(* ---------------------------------------------------------------------- *)
MaxCalls == 3

(* the arguments the calls are drawn from: two valid categories and one    *)
(* that is not valid, two names and the empty name, two components         *)
RegCategories == {"stage", "metric", "plugin"}

RegNames == {"esm2", "custom"}

RegClasses == {"ClassA", "ClassB"}

OrchestratorIdle ==
    UNCHANGED <<pipeline_config, dry_run, context, sys_modules, stages_imported,
                pc, error, enabled_stages, idx, results, issues, stage_state,
                attempted, validated, passed, returned_by, entry_context,
                document_exists, exit_status, runs>>

(* ComponentRegistry() and no orchestrator at work                         *)
InitRegistry ==
    /\ pipeline_config = [stages |-> <<>>]
    /\ dry_run = FALSE
    /\ context = Dict(EmptyDict)
    /\ registry = NewRegistry
    /\ sys_modules = EmptyDict
    /\ stages_imported = {}
    /\ pc = "registry"
    /\ error = "none"
    /\ enabled_stages = <<>>
    /\ idx = 0
    /\ results = <<>>
    /\ issues = <<>>
    /\ stage_state = <<>>
    /\ attempted = <<>>
    /\ validated = <<>>
    /\ passed = <<>>
    /\ returned_by = <<>>
    /\ entry_context = Dict(EmptyDict)
    /\ last_call = NoCall
    /\ stored = EmptyDict
    /\ document_exists = TRUE
    /\ exit_status = -1
    /\ runs = 0

(* registry.register(category, name, cls, overwrite); had is the component *)
(* stored under (category, name) before the call, "" if none               *)
DirectRegister ==
    /\ last_call.seq < MaxCalls
    /\ \E category \in RegCategories, name \in RegNames \cup {""},
          cls \in RegClasses, overwrite \in BOOLEAN :
          LET r == Register(registry, category, name, cls, overwrite)
          IN  /\ registry' = r.reg
              /\ last_call' = [op |-> "register", seq |-> last_call.seq + 1,
                               category |-> category, name |-> name, cls |-> cls,
                               overwrite |-> overwrite, err |-> r.err,
                               had |-> DictGet(stored, <<category, name>>, "")]
              /\ stored' = IF r.err = "none"
                           THEN DictSet(stored, <<category, name>>, cls)
                           ELSE stored
    /\ OrchestratorIdle

(* registry.get(category, name)                                            *)
DirectGet ==
    /\ last_call.seq < MaxCalls
    /\ \E category \in RegCategories, name \in RegNames :
          LET r == Get(registry, category, name)
          IN  last_call' = [op |-> "get", seq |-> last_call.seq + 1,
                            category |-> category, name |-> name,
                            err |-> r.err, cls |-> r.cls, available |-> r.available]
    /\ UNCHANGED <<registry, stored>>
    /\ OrchestratorIdle

(* registry.has(category, name)                                            *)
DirectHas ==
    /\ last_call.seq < MaxCalls
    /\ \E category \in RegCategories, name \in RegNames :
          last_call' = [op |-> "has", seq |-> last_call.seq + 1,
                        category |-> category, name |-> name,
                        found |-> Has(registry, category, name)]
    /\ UNCHANGED <<registry, stored>>
    /\ OrchestratorIdle

(* registry.unregister(category, name); had as for register                *)
DirectUnregister ==
    /\ last_call.seq < MaxCalls
    /\ \E category \in RegCategories, name \in RegNames :
          /\ registry' = Unregister(registry, category, name)
          /\ last_call' = [op |-> "unregister", seq |-> last_call.seq + 1,
                           category |-> category, name |-> name,
                           had |-> DictGet(stored, <<category, name>>, "")]
          /\ stored' = DictDel(stored, <<category, name>>)
    /\ OrchestratorIdle

(* registry.clear(category); removed is the set of (category, name) keys   *)
(* stored before the call that the call is to remove                       *)
DirectClearCategory ==
    /\ last_call.seq < MaxCalls
    /\ \E category \in RegCategories :
          /\ registry' = ClearCategory(registry, category)
          /\ last_call' = [op |-> "clear", seq |-> last_call.seq + 1,
                           category |-> category,
                           removed |-> {q \in DOMAIN stored : q[1] = category}]
          /\ stored' = [p \in {q \in DOMAIN stored : q[1] # category} |-> stored[p]]
    /\ OrchestratorIdle

(* registry.clear()                                                        *)
DirectClearAll ==
    /\ last_call.seq < MaxCalls
    /\ registry' = ClearAll(registry)
    /\ last_call' = [op |-> "clear_all", seq |-> last_call.seq + 1,
                     removed |-> DOMAIN stored]
    /\ stored' = EmptyDict
    /\ OrchestratorIdle

NextRegistry ==
    \/ DirectRegister
    \/ DirectGet
    \/ DirectHas
    \/ DirectUnregister
    \/ DirectClearCategory
    \/ DirectClearAll

SpecRegistry == InitRegistry /\ [][NextRegistry]_vars

(* ---------------------------------------------------------------------- *)
(* _get_enabled_stages() and validate() called directly on an orchestrator *)
(* object, as the orchestrator tests do                                    *)
(* ---------------------------------------------------------------------- *)
MaxListed == 3

(* a stage with an unmet precondition, a stage without issues, a name that *)
(* is not registered, and a stage whose validate raises                    *)
CallStageNames == {"setup_data", "custom_hello", "nonexistent_stage", "raising_stage"}

CallStageSpecs ==
    {StageSpec(name, enabled, "absent") :
        name \in CallStageNames, enabled \in {"absent", "true", "false"}}

(* the global registry after `import pipeline.stages`, the example plugin's *)
(* register and the registration of the stage whose validate raises        *)
CallRegistry ==
    LET builtin == ImportStages(BuiltinStages, NewRegistry, {}).reg
        plugin == CallRegister(ExamplePluginRegister, FALSE, builtin).reg
    IN  Register(plugin, "stage", "raising_stage", "RaisingStage", FALSE).reg

(* PipelineOrchestrator(config) over that registry                         *)
InitCalls ==
    /\ pipeline_config \in {[stages |-> st] : st \in SeqsUpTo(CallStageSpecs, MaxListed)}
    /\ dry_run = FALSE
    /\ context = Dict(EmptyDict)
    /\ registry = CallRegistry
    /\ sys_modules = EmptyDict
    /\ stages_imported = {BuiltinStages[n].name : n \in 1..Len(BuiltinStages)}
    /\ pc = "constructed"
    /\ error = "none"
    /\ enabled_stages = <<>>
    /\ idx = 0
    /\ results = <<>>
    /\ issues = <<>>
    /\ stage_state = Pending(pipeline_config)
    /\ attempted = <<>>
    /\ validated = <<>>
    /\ passed = NoContexts(pipeline_config)
    /\ returned_by = NoContexts(pipeline_config)
    /\ entry_context = Dict(EmptyDict)
    /\ last_call = NoCall
    /\ stored = EmptyDict
    /\ document_exists = TRUE
    /\ exit_status = -1
    /\ runs = 0

(* orch._get_enabled_stages()                                              *)
CallGetEnabledStages ==
    /\ pc = "constructed"
    /\ enabled_stages' = GetEnabledStages(pipeline_config)
    /\ pc' = "enabled_returned"
    /\ UNCHANGED <<pipeline_config, dry_run, context, registry, sys_modules,
                   stages_imported, error, idx, results, issues, stage_state,
                   attempted, validated, passed, returned_by, entry_context,
                   last_call, stored, document_exists, exit_status, runs>>

(* orch.validate()                                                         *)
CallValidate ==
    /\ pc = "constructed"
    /\ issues' = Validate(pipeline_config, registry, context)
    /\ validated' = GetEnabledStages(pipeline_config)
    /\ pc' = "validate_returned"
    /\ UNCHANGED <<pipeline_config, dry_run, context, registry, sys_modules,
                   stages_imported, error, enabled_stages, idx, results,
                   stage_state, attempted, passed, returned_by, entry_context,
                   last_call, stored, document_exists, exit_status, runs>>

NextCalls ==
    \/ CallGetEnabledStages
    \/ CallValidate

SpecCalls == InitCalls /\ [][NextCalls]_vars

(* ---------------------------------------------------------------------- *)
(* The plugin loader's three functions called directly with a registry of  *)
(* their own, as the plugin loader tests do                                *)
(* ---------------------------------------------------------------------- *)
MaxLoads == 2

MaxDescriptors == 2

LoaderPaths ==
    {ExamplePluginPath, EncoderPluginPath, NoRegisterPath, SyntaxErrorPath,
     RegisterRaisesPath, TextFilePath, NonexistentPath, PartialPluginPath}

LoaderPackages ==
    {EsmfoldPackage, NoRegisterPackage, RegisterRaisesPackage, BrokenPackage,
     NonexistentPackage, PartialPackage}

(* the descriptors passed to load_plugins: two plugins that load, one file *)
(* and one package that fail, and the descriptor of test_load_invalid_config *)
LoaderDescriptors ==
    {[path |-> ExamplePluginPath], [path |-> RegisterRaisesPath],
     [package |-> EsmfoldPackage], [package |-> BrokenPackage],
     [invalid_key |-> "value"]}

LoaderIdle ==
    UNCHANGED <<pipeline_config, dry_run, context, stages_imported,
                pc, error, enabled_stages, idx, results, issues, stage_state,
                attempted, validated, passed, returned_by, entry_context, stored,
                document_exists, exit_status, runs>>

(* ComponentRegistry(), no plugin loaded and no orchestrator at work       *)
InitLoader ==
    /\ pipeline_config = [stages |-> <<>>]
    /\ dry_run = FALSE
    /\ context = Dict(EmptyDict)
    /\ registry = NewRegistry
    /\ sys_modules = EmptyDict
    /\ stages_imported = {}
    /\ pc = "loader"
    /\ error = "none"
    /\ enabled_stages = <<>>
    /\ idx = 0
    /\ results = <<>>
    /\ issues = <<>>
    /\ stage_state = <<>>
    /\ attempted = <<>>
    /\ validated = <<>>
    /\ passed = <<>>
    /\ returned_by = <<>>
    /\ entry_context = Dict(EmptyDict)
    /\ last_call = NoCall
    /\ stored = EmptyDict
    /\ document_exists = TRUE
    /\ exit_status = -1
    /\ runs = 0

(* load_plugin_from_path(path, registry)                                   *)
DirectLoadFromPath ==
    /\ last_call.seq < MaxLoads
    /\ \E path \in LoaderPaths :
          LET r == LoadPluginFromPath(path, registry, sys_modules)
          IN  /\ registry' = r.reg
              /\ sys_modules' = r.mods
              /\ last_call' = [op |-> "load_from_path", seq |-> last_call.seq + 1,
                               path |-> path, err |-> r.err, name |-> r.name]
    /\ LoaderIdle

(* load_plugin_from_package(package_name, registry)                        *)
DirectLoadFromPackage ==
    /\ last_call.seq < MaxLoads
    /\ \E package_name \in LoaderPackages :
          LET r == LoadPluginFromPackage(package_name, registry, sys_modules)
          IN  /\ registry' = r.reg
              /\ sys_modules' = r.mods
              /\ last_call' = [op |-> "load_from_package", seq |-> last_call.seq + 1,
                               package |-> package_name, err |-> r.err,
                               name |-> r.name]
    /\ LoaderIdle

(* load_plugins(plugin_configs, registry)                                  *)
DirectLoadPlugins ==
    /\ last_call.seq < MaxLoads
    /\ \E plugin_configs \in SeqsUpTo(LoaderDescriptors, MaxDescriptors) :
          LET r == LoadPlugins(plugin_configs, registry, sys_modules, <<>>)
          IN  /\ registry' = r.reg
              /\ sys_modules' = r.mods
              /\ last_call' = [op |-> "load_plugins", seq |-> last_call.seq + 1,
                               configs |-> plugin_configs, err |-> r.err,
                               loaded |-> r.loaded]
    /\ LoaderIdle

NextLoader ==
    \/ DirectLoadFromPath
    \/ DirectLoadFromPackage
    \/ DirectLoadPlugins

SpecLoader == InitLoader /\ [][NextLoader]_vars

(* ---------------------------------------------------------------------- *)
(* run_pipeline.main: the command line around one run()                    *)
(* ---------------------------------------------------------------------- *)
(* a main that never looks at the results *)
ExitStatus_AlwaysZero(ctx) == 0

(* main lines 126-134: the exit status after run() returned context; main  *)
(* returning without sys.exit is exit status 0                             *)
ExitStatus(ctx) ==
    LET run_results == IF HasKey(ctx, "pipeline_results")
                       THEN ctx.d["pipeline_results"] ELSE <<>>
        failed == {n \in 1..Len(run_results) : run_results[n].v.status = "failed"}
    IN  IF failed # {} THEN 1 ELSE 0

(* the process at the start of main: the pipeline document exists and      *)
(* holds one of the pipeline configs, or there is no file at args.pipeline *)
InitCli ==
    /\ document_exists \in BOOLEAN
    /\ pipeline_config \in IF document_exists THEN PipelineConfigs ELSE {[stages |-> <<>>]}
    /\ dry_run \in BOOLEAN
    /\ context = Dict(EmptyDict)
    /\ registry = NewRegistry
    /\ sys_modules = EmptyDict
    /\ stages_imported = {}
    /\ pc = "main"
    /\ error = "none"
    /\ enabled_stages = <<>>
    /\ idx = 0
    /\ results = <<>>
    /\ issues = <<>>
    /\ stage_state = Pending(pipeline_config)
    /\ attempted = <<>>
    /\ validated = <<>>
    /\ passed = NoContexts(pipeline_config)
    /\ returned_by = NoContexts(pipeline_config)
    /\ entry_context = Dict(EmptyDict)
    /\ last_call = NoCall
    /\ stored = EmptyDict
    /\ exit_status = -1
    /\ runs = 0

CliFrame ==
    UNCHANGED <<pipeline_config, dry_run, context, registry, sys_modules,
                stages_imported, error, enabled_stages, idx, results, issues,
                stage_state, attempted, validated, passed, returned_by,
                entry_context, last_call, stored, document_exists, runs>>

(* main lines 102-104: no file at args.pipeline                            *)
CliMissingDocument ==
    /\ pc = "main"
    /\ ~document_exists
    /\ pc' = "exited"
    /\ exit_status' = 1
    /\ CliFrame

(* main lines 106-112: PipelineOrchestrator.from_yaml                      *)
CliFromYaml ==
    /\ pc = "main"
    /\ document_exists
    /\ pc' = "constructed"
    /\ UNCHANGED exit_status
    /\ CliFrame

(* main lines 125-134: run() returned; the results are checked             *)
CliExit ==
    /\ pc = "returned"
    /\ pc' = "exited"
    /\ exit_status' = ExitStatus(context)
    /\ CliFrame

(* main line 125: run() raised and nothing in main catches it; the         *)
(* interpreter prints the traceback and exits with status 1                *)
CliUncaught ==
    /\ pc = "raised"
    /\ pc' = "exited"
    /\ exit_status' = 1
    /\ CliFrame

NextCli ==
    \/ CliMissingDocument
    \/ CliFromYaml
    \/ Next
    \/ CliExit
    \/ CliUncaught

SpecCli == InitCli /\ [][NextCli]_vars

(* ---------------------------------------------------------------------- *)
(* run() on documents whose stage specs carry any on_failure token:        *)
(* abort, continue, a token the code does not know, or none                *)
(* ---------------------------------------------------------------------- *)
OnFailureTokens == {"absent", "abort", "continue", "retry"}

PolicyStageSpecs ==
    {StageSpec(n, "absent", f) : n \in StageNames, f \in OnFailureTokens}

PolicyConfigs ==
    {[stages |-> st] : st \in SeqsUpTo(PolicyStageSpecs, MaxStages)}

(* PipelineOrchestrator.__init__ in a fresh interpreter, for such a        *)
(* document                                                                *)
InitPolicy ==
    /\ pipeline_config \in PolicyConfigs
    /\ dry_run \in BOOLEAN
    /\ context = Dict(EmptyDict)
    /\ registry = NewRegistry
    /\ sys_modules = EmptyDict
    /\ stages_imported = {}
    /\ pc = "constructed"
    /\ error = "none"
    /\ enabled_stages = <<>>
    /\ idx = 0
    /\ results = <<>>
    /\ issues = <<>>
    /\ stage_state = Pending(pipeline_config)
    /\ attempted = <<>>
    /\ validated = <<>>
    /\ passed = NoContexts(pipeline_config)
    /\ returned_by = NoContexts(pipeline_config)
    /\ entry_context = Dict(EmptyDict)
    /\ last_call = NoCall
    /\ stored = EmptyDict
    /\ document_exists = TRUE
    /\ exit_status = -1
    /\ runs = 0

SpecPolicy == InitPolicy /\ [][Next]_vars

(* ---------------------------------------------------------------------- *)
(* run() over the stages of the integration tests: stage_a, and stage_b    *)
(* whose validate wants the key that stage_a's run writes                  *)
(* ---------------------------------------------------------------------- *)
FlowStageNames == {"stage_a", "stage_b", "setup_data", "custom_hello"}

FlowStageSpecs ==
    {StageSpec(n, e, f) : n \in FlowStageNames, e \in {"absent", "false"},
                          f \in {"absent", "continue"}}

(* the global registry after the test module's `import pipeline.stages`    *)
(* and the registrations of setUp                                          *)
FlowRegistry ==
    LET builtin == ImportStages(BuiltinStages, NewRegistry, {}).reg
        a == Register(builtin, "stage", "stage_a", "StageA", TRUE).reg
    IN  Register(a, "stage", "stage_b", "StageB", TRUE).reg

(* PipelineOrchestrator(config) over that registry                         *)
InitFlow ==
    /\ pipeline_config \in {[stages |-> st] : st \in SeqsUpTo(FlowStageSpecs, MaxStages)}
    /\ dry_run \in BOOLEAN
    /\ context = Dict(EmptyDict)
    /\ registry = FlowRegistry
    /\ sys_modules = EmptyDict
    /\ stages_imported = {BuiltinStages[n].name : n \in 1..Len(BuiltinStages)}
    /\ pc = "constructed"
    /\ error = "none"
    /\ enabled_stages = <<>>
    /\ idx = 0
    /\ results = <<>>
    /\ issues = <<>>
    /\ stage_state = Pending(pipeline_config)
    /\ attempted = <<>>
    /\ validated = <<>>
    /\ passed = NoContexts(pipeline_config)
    /\ returned_by = NoContexts(pipeline_config)
    /\ entry_context = Dict(EmptyDict)
    /\ last_call = NoCall
    /\ stored = EmptyDict
    /\ document_exists = TRUE
    /\ exit_status = -1
    /\ runs = 0

SpecFlow == InitFlow /\ [][Next]_vars

(* ---------------------------------------------------------------------- *)
(* run() called again on the same orchestrator, in the same interpreter:   *)
(* the registry, sys.modules and self.context outlive a run() call, and    *)
(* the caller may use the global registry between the calls                *)
(* ---------------------------------------------------------------------- *)
MaxRuns == 2

RepeatStageSpecs ==
    {StageSpec(n, e, "absent") : n \in StageNames, e \in {"absent", "false"}}

RepeatConfigs ==
    {[stages |-> st, plugins |-> pl] :
        st \in SeqsUpTo(RepeatStageSpecs, MaxStages),
        pl \in SeqsUpTo({[path |-> ExamplePluginPath]}, MaxPlugins)}

InitRepeat ==
    /\ pipeline_config \in RepeatConfigs
    /\ dry_run \in BOOLEAN
    /\ context = Dict(EmptyDict)
    /\ registry = NewRegistry
    /\ sys_modules = EmptyDict
    /\ stages_imported = {}
    /\ pc = "constructed"
    /\ error = "none"
    /\ enabled_stages = <<>>
    /\ idx = 0
    /\ results = <<>>
    /\ issues = <<>>
    /\ stage_state = Pending(pipeline_config)
    /\ attempted = <<>>
    /\ validated = <<>>
    /\ passed = NoContexts(pipeline_config)
    /\ returned_by = NoContexts(pipeline_config)
    /\ entry_context = Dict(EmptyDict)
    /\ last_call = NoCall
    /\ stored = EmptyDict
    /\ document_exists = TRUE
    /\ exit_status = -1
    /\ runs = 0

(* what the caller may do to the global registry between two run() calls:  *)
(* unregister a stage or the plugin's metric, clear("stage"), clear(), or  *)
(* register a class of its own under a built-in stage's name               *)
RegistryOps(reg) ==
    {Unregister(reg, "stage", n) : n \in StageNames}
    \cup {Unregister(reg, "metric", "avg_seq_length"),
          ClearCategory(reg, "stage"), ClearAll(reg),
          Register(reg, "stage", "setup_data", "CustomStage", FALSE).reg}

(* a registry method called outside run() *)
BetweenRuns ==
    /\ pc \in {"constructed", "returned", "raised"}
    /\ registry' \in RegistryOps(registry)
    /\ registry' # registry
    /\ UNCHANGED <<pipeline_config, dry_run, context, sys_modules,
                   stages_imported, pc, error, enabled_stages, idx, results,
                   issues, stage_state, attempted, validated, passed,
                   returned_by, entry_context>>
    /\ UNCHANGED <<last_call, stored, document_exists, exit_status, runs>>

(* run() is called again after it returned or raised: its locals are new,  *)
(* self.context is what the call before left                               *)
RunAgain ==
    /\ pc \in {"returned", "raised"}
    /\ runs + 1 < MaxRuns
    /\ runs' = runs + 1
    /\ pc' = "injected"
    /\ error' = "none"
    /\ enabled_stages' = <<>>
    /\ idx' = 0
    /\ results' = <<>>
    /\ issues' = <<>>
    /\ stage_state' = Pending(pipeline_config)
    /\ attempted' = <<>>
    /\ validated' = <<>>
    /\ passed' = NoContexts(pipeline_config)
    /\ returned_by' = NoContexts(pipeline_config)
    /\ UNCHANGED <<pipeline_config, dry_run, context, registry, sys_modules,
                   stages_imported, entry_context>>
    /\ UNCHANGED <<last_call, stored, document_exists, exit_status>>

NextRepeat ==
    \/ Next
    \/ BetweenRuns
    \/ RunAgain

SpecRepeat == InitRepeat /\ [][NextRepeat]_vars

(* ---------------------------------------------------------------------- *)
(* run() with calls that may not return: the plugin's code, a stage's      *)
(* validate and a stage's run are called synchronously, without a timeout  *)
(* ---------------------------------------------------------------------- *)
LiveConfigs ==
    {[stages |-> st, plugins |-> pl] :
        st \in SeqsUpTo(StageSpecs, MaxStages),
        pl \in SeqsUpTo({[path |-> ExamplePluginPath], [path |-> NonexistentPath]},
                        MaxPlugins)}

InitLive ==
    /\ pipeline_config \in LiveConfigs
    /\ dry_run \in BOOLEAN
    /\ context = Dict(EmptyDict)
    /\ registry = NewRegistry
    /\ sys_modules = EmptyDict
    /\ stages_imported = {}
    /\ pc = "constructed"
    /\ error = "none"
    /\ enabled_stages = <<>>
    /\ idx = 0
    /\ results = <<>>
    /\ issues = <<>>
    /\ stage_state = Pending(pipeline_config)
    /\ attempted = <<>>
    /\ validated = <<>>
    /\ passed = NoContexts(pipeline_config)
    /\ returned_by = NoContexts(pipeline_config)
    /\ entry_context = Dict(EmptyDict)
    /\ last_call = NoCall
    /\ stored = EmptyDict
    /\ document_exists = TRUE
    /\ exit_status = -1
    /\ runs = 0

(* the call run() is in does not return: nothing more happens *)
Hangs ==
    /\ pc' = "hung"
    /\ UNCHANGED <<pipeline_config, dry_run, context, registry, sys_modules,
                   stages_imported, error, enabled_stages, idx, results,
                   issues, stage_state, attempted, validated, passed,
                   returned_by, entry_context>>
    /\ UNCHANGED <<last_call, stored, document_exists, exit_status, runs>>

(* run() line 121: the code of the first plugin never returns             *)
LoadPluginsHangs ==
    /\ pc \in {"constructed", "injected"}
    /\ LET plugins == DictGet(pipeline_config, "plugins", <<>>)
       IN  plugins # <<>> /\ plugins[1] = [path |-> ExamplePluginPath]
    /\ Hangs

(* run() line 152, validate() line 101: the validate of an enabled stage   *)
(* that resolves never returns                                             *)
ValidateHangs ==
    /\ pc = "seeded"
    /\ ~dry_run
    /\ \E i \in 1..Len(enabled_stages) :
          ResolveStage(registry, Stages[enabled_stages[i]].name).err = "none"
    /\ Hangs

(* run() line 183: stage.run never returns                                 *)
StageRunHangs ==
    /\ pc = "running"
    /\ Hangs

NextLive ==
    \/ Next
    \/ LoadPluginsHangs
    \/ ValidateHangs
    \/ StageRunHangs

(* the interpreter goes on with the next statement, and a call that does   *)
(* not hang comes back                                                     *)
SpecLive == InitLive /\ [][NextLive]_vars /\ WF_vars(Next)

(* ---------------------------------------------------------------------- *)
(* Properties                                                              *)
(* ---------------------------------------------------------------------- *)
StageIndices == 1..Len(Stages)

Enabled(n) == DictGet(Stages[n], "enabled", TRUE)

OnFailure(n) == DictGet(Stages[n], "on_failure", "abort")

Attempted(n) == n \in Range(attempted)

(* stage spec n's run was called and raised *)
RunRaised(n) == stage_state[n] = "failed" /\ passed[n].called

Untouched(n) ==
    stage_state[n] = "pending" /\ ~Attempted(n) /\ ~passed[n].called

(* the result map as the caller of run() sees it *)
PipelineResults ==
    IF HasKey(context, "pipeline_results") THEN context.d["pipeline_results"] ELSE <<>>

NonDryRunReturned == pc = "returned" /\ ~dry_run /\ enabled_stages # <<>>

(* C1 as claimed: once an enabled stage whose policy is abort (explicitly  *)
(* or by default) has raised in a non-dry run, no stage spec configured    *)
(* after it is resolved or run, and no name of a stage spec configured     *)
(* after it is a key of the result map.                                    *)
C1_AsClaimed ==
    \A n \in StageIndices :
        (RunRaised(n) /\ OnFailure(n) = "abort") =>
            \A m \in StageIndices :
                m > n => /\ Untouched(m)
                         /\ ~OHas(results, Stages[m].name)
                         /\ ~OHas(PipelineResults, Stages[m].name)

(* C1 amended: once an enabled stage whose policy is abort has raised, no  *)
(* stage spec configured after it is resolved or run, and the name of a    *)
(* stage spec configured after it is a key of the result map only if a     *)
(* stage spec of the same name was attempted up to and including the       *)
(* failed one.                                                             *)
C1_AbortStopsLaterStages ==
    \A n \in StageIndices :
        (RunRaised(n) /\ OnFailure(n) = "abort") =>
            \A m \in StageIndices :
                m > n =>
                    /\ Untouched(m)
                    /\ (OHas(results, Stages[m].name) \/ OHas(PipelineResults, Stages[m].name))
                         => \E j \in 1..n : Attempted(j) /\ Stages[j].name = Stages[m].name

(* an aborting stage raised ahead of an enabled stage, and run() returned  *)
C1_Witness ==
    /\ NonDryRunReturned
    /\ \E n, m \in StageIndices :
          /\ m > n /\ Enabled(m)
          /\ RunRaised(n) /\ OnFailure(n) = "abort"
          /\ Stages[m].name # Stages[n].name
          /\ OHas(PipelineResults, Stages[n].name)

(* the for loop of run() is over *)
LoopOver == pc \in {"summary", "returned"} \/ (pc = "raised" /\ error = "TypeError")

(* a stage spec after n with the same name has been attempted *)
LaterSameName(n) ==
    \E j \in StageIndices : j > n /\ Attempted(j) /\ Stages[j].name = Stages[n].name

StatusOf(n) ==
    IF OHas(results, Stages[n].name) THEN OGet(results, Stages[n].name).status ELSE "absent"

InOrder(s) == \A a, b \in 1..Len(s) : a < b => s[a] < s[b]

C3_ContextReplacedWholesale ==
    /\ (pc \in {"next_stage", "resolving", "summary"} /\ attempted # <<>>) =>
          LET last == attempted[Len(attempted)]
          IN  (stage_state[last] = "succeeded") => context = returned_by[last].ctx
    /\ \A i \in 1..(Len(enabled_stages) - 1) :
          LET n == enabled_stages[i]
              m == enabled_stages[i + 1]
          IN  (stage_state[n] = "succeeded" /\ passed[m].called)
                 => passed[m].ctx = returned_by[n].ctx

(* a stage that received the seeded context returned a dict without the    *)
(* seeded keys, and the next stage's run was called without them           *)
C3_Witness ==
    \E i \in 1..(Len(enabled_stages) - 1) :
        LET n == enabled_stages[i]
            m == enabled_stages[i + 1]
        IN  /\ stage_state[n] = "succeeded"
            /\ HasKey(passed[n].ctx, "config_path")
            /\ passed[m].called
            /\ passed[m].ctx.isdict
            /\ ~HasKey(passed[m].ctx, "config_path")

(* C4: within one run() call at most one stage is resolving or running,    *)
(* and an enabled stage has left pending only if every enabled stage       *)
(* configured before it has reached succeeded or failed.                   *)
C4_OneStageAtATime ==
    /\ Cardinality({n \in StageIndices : stage_state[n] \in {"resolving", "running"}}) <= 1
    /\ \A n, m \in StageIndices :
          (n < m /\ Enabled(n) /\ Enabled(m) /\ stage_state[m] # "pending")
             => stage_state[n] \in {"succeeded", "failed"}

(* the second of two enabled stages is running after the first finished    *)
C4_Witness ==
    \E n, m \in StageIndices :
        /\ n < m /\ Enabled(n) /\ Enabled(m)
        /\ stage_state[m] = "running"
        /\ stage_state[n] \in {"succeeded", "failed"}

ClaimedTransitions ==
    {<<"pending", "resolving">>, <<"resolving", "running">>,
     <<"running", "succeeded">>, <<"running", "failed">>}

NoRepeats(s) == \A a, b \in 1..Len(s) : a # b => s[a] # s[b]

(* C5 as claimed: every step of a run() call changes a stage spec's state  *)
(* only along pending -> resolving -> running -> succeeded | failed, and   *)
(* no stage spec is resolved twice.                                        *)
C5_AsClaimed ==
    [][/\ \A n \in StageIndices :
             stage_state'[n] # stage_state[n]
                => <<stage_state[n], stage_state'[n]>> \in ClaimedTransitions
       /\ NoRepeats(attempted')]_vars

(* C5 amended: every step of a run() call changes a stage spec's state     *)
(* only along pending -> resolving -> running -> succeeded | failed or,    *)
(* when resolution raises, resolving -> failed; succeeded and failed are   *)
(* never left, no stage spec is resolved twice, and a disabled spec stays  *)
(* pending.                                                                *)
C5_StageTransitions ==
    [][/\ \A n \in StageIndices :
             /\ stage_state'[n] # stage_state[n]
                   => <<stage_state[n], stage_state'[n]>>
                         \in ClaimedTransitions \cup {<<"resolving", "failed">>}
             /\ ~Enabled(n) => stage_state'[n] = "pending"
       /\ NoRepeats(attempted')]_vars

(* a stage failed at resolution under continue, a later stage succeeded,   *)
(* and the loop is over                                                    *)
C5_Witness ==
    /\ LoopOver
    /\ \E n, m \in StageIndices :
          /\ n < m
          /\ stage_state[n] = "failed" /\ ~passed[n].called
          /\ OnFailure(n) = "continue"
          /\ stage_state[m] = "succeeded"

(* C6: a non-dry run() with at least one enabled stage, once over, has     *)
(* returned a context that carries the result map under pipeline_results,  *)
(* whatever the stages did.                                                *)
C6_AlwaysYieldsResultMap ==
    (~dry_run /\ enabled_stages # <<>> /\ pc \in {"returned", "raised"}) =>
        /\ pc = "returned"
        /\ HasKey(context, "pipeline_results")
        /\ context.d["pipeline_results"] = results

AttemptedNames == [i \in 1..Len(attempted) |-> Stages[attempted[i]].name]

(* the elements of a sequence in the order of their first occurrence *)
RECURSIVE FirstOccurrences(_)
FirstOccurrences(s) ==
    IF s = <<>>
    THEN <<>>
    ELSE LET front == FirstOccurrences(SubSeq(s, 1, Len(s) - 1))
             last == s[Len(s)]
         IN  IF last \in Range(front) THEN front ELSE Append(front, last)

(* stage spec n is configured after a stage that failed under abort *)
AfterAbort(n) ==
    \E k \in StageIndices :
        k < n /\ stage_state[k] = "failed" /\ OnFailure(k) = "abort"

(* C7 as claimed: after a non-dry run() has returned, a stage name is a    *)
(* key of pipeline_results exactly if an enabled stage spec of that name   *)
(* was attempted; the names of disabled stage specs and of stage specs     *)
(* configured after an aborting failure are no keys; and the keys are the  *)
(* names of the attempted stage specs in the order of the attempts.        *)
C7_AsClaimed ==
    NonDryRunReturned =>
        /\ \A name \in StageNames :
              OHas(PipelineResults, name)
                 <=> \E n \in StageIndices :
                        Enabled(n) /\ Attempted(n) /\ Stages[n].name = name
        /\ \A n \in StageIndices :
              (~Enabled(n) \/ AfterAbort(n)) => ~OHas(PipelineResults, Stages[n].name)
        /\ OKeys(PipelineResults) = AttemptedNames

(* C7 amended: after a non-dry run() has returned, a stage name is a key   *)
(* of pipeline_results exactly if an enabled stage spec of that name was   *)
(* attempted; disabled stage specs and stage specs configured after an     *)
(* aborting failure were not attempted, so their names are keys only if    *)
(* an attempted spec has the same name; and the keys are the attempted     *)
(* names in the order of each name's first attempt.                        *)
C7_ResultKeysAreAttemptedNames ==
    NonDryRunReturned =>
        /\ \A name \in StageNames :
              OHas(PipelineResults, name)
                 <=> \E n \in StageIndices :
                        Enabled(n) /\ Attempted(n) /\ Stages[n].name = name
        /\ \A n \in StageIndices :
              (~Enabled(n) \/ AfterAbort(n)) =>
                  /\ Untouched(n)
                  /\ OHas(PipelineResults, Stages[n].name)
                        => \E j \in StageIndices :
                              Attempted(j) /\ Stages[j].name = Stages[n].name
        /\ OKeys(PipelineResults) = FirstOccurrences(AttemptedNames)

(* run() returned with the entry of an attempted stage and without the     *)
(* name of a disabled stage                                                *)
C7_Witness ==
    /\ NonDryRunReturned
    /\ \E n, m \in StageIndices :
          /\ Attempted(n) /\ ~Enabled(m)
          /\ Stages[n].name # Stages[m].name
          /\ OHas(PipelineResults, Stages[n].name)
          /\ ~OHas(PipelineResults, Stages[m].name)

ReservedKeys == {"config_path", "stage_params", "hydra_overrides", "pipeline_results"}

(* C8: a dry run never has a pipeline_results key in its context, whatever *)
(* stages, plugins and parameters are configured.                          *)
C8_DryRunHasNoResults == dry_run => ~HasKey(context, "pipeline_results")

(* a dry run with enabled stages seeded the context and returned           *)
C8_Witness ==
    /\ dry_run /\ pc = "returned"
    /\ enabled_stages # <<>>
    /\ HasKey(context, "stage_params")

(* what load_plugins can end with: PluginLoadError, or the exception of a  *)
(* package's top-level code                                                *)
LoaderErrors == PluginLoadErrors \cup {"RuntimeError"}

RunStarted == pc \notin {"constructed", "injected"}

NoStageTouched ==
    /\ \A n \in StageIndices : Untouched(n)
    /\ attempted = <<>> /\ validated = <<>> /\ results = <<>> /\ issues = <<>>

(* C9: with zero enabled stages (none configured, or all disabled) run()   *)
(* leaves the context as it was on entry, adds none of the reserved keys,  *)
(* resolves, validates and runs no stage, and can end otherwise than by    *)
(* returning only inside plugin loading.                                   *)
C9_ZeroEnabledUnchanged ==
    (RunStarted /\ GetEnabledStages(pipeline_config) = <<>>) =>
        /\ context = entry_context
        /\ \A k \in ReservedKeys : ~HasKey(context, k)
        /\ NoStageTouched
        /\ pc \in {"plugins_loaded", "stages_imported", "returned", "raised"}
        /\ pc = "raised" => error \in LoaderErrors

(* run() returned for a document whose stages are all disabled and that    *)
(* configures overrides, with a context the command line filled            *)
C9_Witness ==
    /\ pc = "returned"
    /\ Stages # <<>>
    /\ GetEnabledStages(pipeline_config) = <<>>
    /\ "hydra_overrides" \in DOMAIN pipeline_config
    /\ HasKey(context, "checkpoint_path")

(* a descriptor whose file or package loads and registers by itself *)
Loadable(plugin_cfg) ==
    IF "path" \in DOMAIN plugin_cfg
    THEN /\ plugin_cfg.path.ext = ".py"
         /\ LET file == FileAt(plugin_cfg.path)
            IN  file.exists /\ file.exec_ok /\ file.has_register /\ ~file.raises
    ELSE /\ "package" \in DOMAIN plugin_cfg
         /\ LET pkg == PackageAt(plugin_cfg.package)
            IN  pkg.exists /\ pkg.exec_ok /\ pkg.has_register /\ ~pkg.raises

ConfiguredPlugins == DictGet(pipeline_config, "plugins", <<>>)

SomeDescriptorFails ==
    \E i \in 1..Len(ConfiguredPlugins) : ~Loadable(ConfiguredPlugins[i])

(* C10: if loading a configured plugin descriptor fails, run() has ended   *)
(* with PluginLoadError, and it resolved, validated and ran no stage, did  *)
(* not seed the context and attached no result map.                        *)
C10_PluginFailureEndsRun ==
    (RunStarted /\ SomeDescriptorFails) =>
        /\ pc = "raised" /\ error \in PluginLoadErrors
        /\ context = entry_context
        /\ \A k \in ReservedKeys : ~HasKey(context, k)
        /\ NoStageTouched
        /\ enabled_stages = <<>>

(* run() of a document with enabled stages ended inside plugin loading     *)
(* with an exception that is not PluginLoadError                           *)
C10_Witness ==
    /\ pc = "raised" /\ error \in LoaderErrors \ PluginLoadErrors
    /\ SomeDescriptorFails
    /\ GetEnabledStages(pipeline_config) # <<>>
    /\ ~dry_run

(* run() ended with TypeError when attaching the result map to a context   *)
(* that the last stage replaced by None                                    *)
C6_Witness ==
    /\ ~dry_run /\ pc = "raised" /\ error = "TypeError"
    /\ enabled_stages # <<>>
    /\ stage_state[enabled_stages[Len(enabled_stages)]] = "succeeded"
    /\ context = NoneValue

(* C11: in a non-dry run, whatever issues validate() reported, once the    *)
(* loop is over every enabled stage spec has been validated, and the       *)
(* stage specs attempted are, in configured order, exactly the enabled     *)
(* ones that are not behind a stage that failed under abort: the issues    *)
(* play no part.                                                           *)
C11_ValidationNeverBlocks ==
    (~dry_run /\ enabled_stages # <<>> /\ LoopOver) =>
        /\ validated = GetEnabledStages(pipeline_config)
        /\ InOrder(attempted)
        /\ \A n \in StageIndices :
              Attempted(n) <=> (Enabled(n) /\ ~AfterAbort(n))

(* validate() reported a resolution error for one stage and a failed       *)
(* precondition for another, and both stages were attempted all the same   *)
C11_Witness ==
    /\ ~dry_run /\ LoopOver
    /\ Len(issues) = 2
    /\ \E i \in 1..Len(issues) : issues[i].v = <<"Error resolving stage">>
    /\ \E i \in 1..Len(issues) : issues[i].v # <<"Error resolving stage">>
    /\ Len(attempted) = 2

(* what the failure policy of stage spec n makes of the loop after n failed *)
PolicyApplied(n) ==
    IF OnFailure(n) = "abort" \/ idx = Len(enabled_stages)
    THEN pc' = "summary"
    ELSE pc' = "next_stage" /\ idx' = idx + 1

(* C13: the step in which a stage's run raises records a failed entry      *)
(* carrying the error under the stage's name and goes on as the stage's    *)
(* on_failure policy says; run() never ends with an exception in a step    *)
(* in which a stage is running.                                            *)
C13_StageErrorsAreCaught ==
    [][/\ \A n \in StageIndices :
             (stage_state[n] = "running" /\ stage_state'[n] = "failed") =>
                 /\ OHas(results', Stages[n].name)
                 /\ OGet(results', Stages[n].name)
                       = [status |-> "failed", error |-> "RuntimeError"]
                 /\ PolicyApplied(n)
                 /\ error' = error
       /\ pc = "running" => pc' # "raised"]_vars

(* a stage's run raised under continue, a later stage's run raised under   *)
(* abort, and run() returned                                               *)
C13_Witness ==
    /\ NonDryRunReturned
    /\ \E n, m \in StageIndices :
          /\ n < m
          /\ RunRaised(n) /\ OnFailure(n) = "continue"
          /\ RunRaised(m) /\ OnFailure(m) = "abort"

C15_ResolutionErrorLikeRunError ==
    [][\A n \in StageIndices :
          (stage_state[n] = "resolving" /\ stage_state'[n] = "failed") =>
              /\ OHas(results', Stages[n].name)
              /\ OGet(results', Stages[n].name)
                    = [status |-> "failed", error |-> "ValueError: not found in registry"]
              /\ ~passed'[n].called
              /\ PolicyApplied(n)
              /\ context' = context]_vars

(* resolving the last stage failed under abort after an earlier stage's    *)
(* resolution had failed under continue                                    *)
C15_Witness ==
    /\ LoopOver
    /\ \E n, m \in StageIndices :
          /\ n < m
          /\ stage_state[n] = "failed" /\ ~passed[n].called
          /\ OnFailure(n) = "continue"
          /\ stage_state[m] = "failed" /\ ~passed[m].called
          /\ OnFailure(m) = "abort"
          /\ Len(results) = 1

(* the context has just been seeded and no stage has touched it since *)
JustSeeded ==
    \/ pc = "seeded"
    \/ pc = "returned" /\ dry_run /\ enabled_stages # <<>>

ParamsOf(n) == DictGet(Stages[n], "params", EmptyDict)

(* what seeding leaves alone and what it always writes *)
SeedFrame ==
    /\ context.isdict
    /\ \A k \in DOMAIN entry_context.d :
          k \notin ReservedKeys =>
              k \in DOMAIN context.d /\ context.d[k] = entry_context.d[k]
    /\ HasKey(context, "config_path")
    /\ context.d["config_path"] = DictGet(pipeline_config, "config_path", "../configs")
    /\ HasKey(context, "stage_params")
    /\ HasKey(context, "hydra_overrides")
          <=> DictGet(pipeline_config, "hydra_overrides", <<>>) # <<>>
    /\ HasKey(context, "hydra_overrides")
          => context.d["hydra_overrides"] = pipeline_config.hydra_overrides

(* nothing is validated or run before the context is seeded *)
NothingBeforeSeeding ==
    pc \in {"constructed", "injected", "plugins_loaded", "stages_imported"}
        => (validated = <<>> /\ attempted = <<>>)

(* C17 as claimed: a run() with an enabled stage seeds the context, before *)
(* any stage is validated or run, with config_path, with hydra_overrides   *)
(* exactly if tokens are configured, and with stage_params holding for     *)
(* each enabled stage spec its params under its name and nothing of a      *)
(* disabled spec.                                                          *)
C17_AsClaimed ==
    /\ NothingBeforeSeeding
    /\ JustSeeded =>
          /\ SeedFrame
          /\ \A n \in StageIndices :
                Enabled(n) =>
                    /\ Stages[n].name \in DOMAIN context.d["stage_params"]
                    /\ context.d["stage_params"][Stages[n].name] = ParamsOf(n)
          /\ \A name \in DOMAIN context.d["stage_params"] :
                \E n \in StageIndices : Enabled(n) /\ Stages[n].name = name

(* C17 amended: as claimed, except that stage_params has an entry for a    *)
(* name exactly if an enabled stage spec of that name has non-empty        *)
(* params, and the entry holds the params of the last such spec.           *)
C17_ContextSeeded ==
    /\ NothingBeforeSeeding
    /\ JustSeeded =>
          /\ SeedFrame
          /\ \A name \in StageNames :
                LET with == {n \in StageIndices :
                                /\ Enabled(n) /\ Stages[n].name = name
                                /\ ParamsOf(n) # EmptyDict}
                IN  /\ name \in DOMAIN context.d["stage_params"] <=> with # {}
                    /\ with # {} =>
                          context.d["stage_params"][name]
                             = ParamsOf(CHOOSE n \in with : \A j \in with : j <= n)
          /\ DOMAIN context.d["stage_params"] \subseteq StageNames

(* the context the command line filled has been seeded for a document with *)
(* overrides, an enabled stage with params and an enabled stage without    *)
C17_Witness ==
    /\ pc = "seeded"
    /\ HasKey(context, "checkpoint_path")
    /\ HasKey(context, "hydra_overrides")
    /\ \E n, m \in StageIndices :
          /\ Enabled(n) /\ ParamsOf(n) # EmptyDict
          /\ Stages[n].name \in DOMAIN context.d["stage_params"]
          /\ Enabled(m) /\ ParamsOf(m) = EmptyDict
          /\ Stages[m].name \notin DOMAIN context.d["stage_params"]

(* the last direct call's category and name as a key of stored *)
CallKey == <<last_call.category, last_call.name>>

(* the registry holds exactly what stored records *)
RegistryIsStored ==
    \A category \in CategorySet :
        /\ DOMAIN registry[category] = {name \in RegNames : <<category, name>> \in DOMAIN stored}
        /\ \A name \in DOMAIN registry[category] :
              registry[category][name] = stored[<<category, name>>]

(* C18: after register was called for a (category, name) that was present, *)
(* without overwrite it has failed with the duplicate-name error and get   *)
(* still returns the component stored before; with overwrite it has        *)
(* succeeded and get returns the component just given.                     *)
C18_DuplicateOrOverwrite ==
    (last_call.op = "register" /\ last_call.had # "") =>
        LET got == Get(registry, last_call.category, last_call.name)
        IN  IF last_call.overwrite
            THEN /\ last_call.err = "none"
                 /\ got.err = "none" /\ got.cls = last_call.cls
            ELSE /\ last_call.err = "ValueError: already registered"
                 /\ got.err = "none" /\ got.cls = last_call.had

(* register with overwrite has replaced a component by another one *)
C18_Witness ==
    /\ last_call.op = "register"
    /\ last_call.had # "" /\ last_call.had # last_call.cls
    /\ last_call.overwrite
    /\ Get(registry, last_call.category, last_call.name).cls = last_call.cls

(* C19 as claimed: get returns the component last stored under (category,  *)
(* name) and not removed since, and otherwise fails with the not-found     *)
(* error that lists the names registered in the category.                  *)
C19_AsClaimed ==
    last_call.op = "get" =>
        IF CallKey \in DOMAIN stored
        THEN last_call.err = "none" /\ last_call.cls = stored[CallKey]
        ELSE /\ last_call.err = "KeyError: not registered"
             /\ last_call.available
                   = {name \in RegNames : <<last_call.category, name>> \in DOMAIN stored}

(* C19 amended: as claimed for a valid category; for a category that is    *)
(* not valid get fails with the invalid-category error.                    *)
C19_GetReturnsLatest ==
    last_call.op = "get" =>
        IF CallKey \in DOMAIN stored
        THEN last_call.err = "none" /\ last_call.cls = stored[CallKey]
        ELSE IF last_call.category \in CategorySet
        THEN /\ last_call.err = "KeyError: not registered"
             /\ last_call.available
                   = {name \in RegNames : <<last_call.category, name>> \in DOMAIN stored}
        ELSE last_call.err = "ValueError: invalid category"

(* get failed for a name that is not registered in a category that holds   *)
(* another name                                                            *)
C19_Witness ==
    /\ last_call.op = "get"
    /\ last_call.err = "KeyError: not registered"
    /\ last_call.available # {}
    /\ last_call.name \notin last_call.available

(* C20: has returns a boolean, false for a category that is not valid and  *)
(* otherwise true exactly when get returns a component, and the registry   *)
(* holds after it what was stored before it.                               *)
C20_HasAgreesWithGet ==
    last_call.op = "has" =>
        /\ last_call.found \in BOOLEAN
        /\ last_call.category \notin CategorySet => ~last_call.found
        /\ last_call.found <=> Get(registry, last_call.category, last_call.name).err = "none"
        /\ last_call.found <=> CallKey \in DOMAIN stored
        /\ RegistryIsStored

(* has returned false for a category that is not valid and a name that is  *)
(* registered in a valid category                                          *)
C20_Witness ==
    /\ last_call.op = "has"
    /\ last_call.category \notin CategorySet
    /\ ~last_call.found
    /\ \E category \in CategorySet : last_call.name \in DOMAIN registry[category]

(* stage spec n counts as enabled: its flag is missing or true *)
FlagOn(n) == "enabled" \notin DOMAIN Stages[n] \/ Stages[n].enabled = TRUE

(* resolving the name or the stage's validate raises *)
RaisesInValidation(name) ==
    \/ ~Has(registry, "stage", name)
    \/ ValidateRaises(Get(registry, "stage", name).cls, HydraConfig, context)

(* the stage's validate returns at least one issue *)
ReportsIssues(name) ==
    /\ Has(registry, "stage", name)
    /\ StageValidate(Get(registry, "stage", name).cls, HydraConfig, context) # <<>>

C16_EnabledInOrder ==
    pc = "enabled_returned" =>
        /\ InOrder(enabled_stages)
        /\ Range(enabled_stages) = {n \in StageIndices : FlagOn(n)}

(* for [A(enabled), B(disabled), C] the call returned [A, C]               *)
C16_Witness ==
    /\ pc = "enabled_returned"
    /\ Len(Stages) = 3
    /\ "enabled" \in DOMAIN Stages[1] /\ Stages[1].enabled
    /\ "enabled" \in DOMAIN Stages[2] /\ ~Stages[2].enabled
    /\ "enabled" \notin DOMAIN Stages[3]
    /\ enabled_stages = <<1, 3>>

(* the step is a direct call of the registry method op *)
DirectCall(op) == last_call'.op = op /\ last_call'.seq = last_call.seq + 1

(* the registry's entries other than those under the keys in gone are what *)
(* they were before the step, and the keys in gone have no entry           *)
OnlyRemoved(gone) ==
    /\ DOMAIN registry' = DOMAIN registry
    /\ \A category \in DOMAIN registry :
          /\ DOMAIN registry'[category]
                = {name \in DOMAIN registry[category] : <<category, name>> \notin gone}
          /\ \A name \in DOMAIN registry'[category] :
                registry'[category][name] = registry[category][name]

(* C21: a call of unregister(category, name) removes the entry under       *)
(* (category, name) if there is one and leaves every other entry as it     *)
(* was; if there is none the registry is as before.                        *)
C21_UnregisterRemovesOne ==
    [][DirectCall("unregister") =>
          /\ OnlyRemoved({<<last_call'.category, last_call'.name>>})
          /\ ~Has(registry, last_call'.category, last_call'.name)
                => registry' = registry
          /\ ~Has(registry', last_call'.category, last_call'.name)]_vars

(* unregister removed an entry from a category that holds another entry    *)
C21_Witness ==
    /\ last_call.op = "unregister"
    /\ last_call.had # ""
    /\ last_call.category \in CategorySet
    /\ registry[last_call.category] # EmptyDict
    /\ last_call.name \notin DOMAIN registry[last_call.category]

(* C22: a call of clear(category) removes every entry of that category and *)
(* leaves the other categories as they were; a call of clear() removes     *)
(* every entry; after either, each name removed can be registered again    *)
(* in its category without overwrite.                                      *)
C22_ClearRemovesCategory ==
    [][/\ DirectCall("clear") =>
             /\ OnlyRemoved({last_call'.category} \X RegNames)
             /\ last_call'.category \in CategorySet
                   => registry'[last_call'.category] = EmptyDict
       /\ DirectCall("clear_all") =>
             \A category \in CategorySet : registry'[category] = EmptyDict
       /\ (DirectCall("clear") \/ DirectCall("clear_all")) =>
             \A q \in last_call'.removed, cls \in RegClasses :
                 Register(registry', q[1], q[2], cls, FALSE).err = "none"]_vars

(* clear(category) removed an entry and left an entry of another category  *)
C22_Witness ==
    /\ last_call.op = "clear"
    /\ last_call.removed # {}
    /\ registry[last_call.category] = EmptyDict
    /\ \E category \in CategorySet : registry[category] # EmptyDict

(* every category of the registry is a valid one and no name is empty *)
RegistryWellFormed(reg) ==
    /\ DOMAIN reg = CategorySet
    /\ \A category \in DOMAIN reg : "" \notin DOMAIN reg[category]

(* C23: a call of register fails with the invalid-category error for a     *)
(* category outside the five and, the category being valid, with the       *)
(* invalid-name error for the empty name; a register that fails leaves the *)
(* registry as it was; and after every step the registry has just the five *)
(* categories, each mapping non-empty names to one component each.         *)
C23_RegisterRejectsInvalid ==
    [][/\ DirectCall("register") =>
             /\ last_call'.category \notin CategorySet
                   => last_call'.err = "ValueError: invalid category"
             /\ (last_call'.category \in CategorySet /\ last_call'.name = "")
                   => last_call'.err = "ValueError: invalid name"
             /\ last_call'.err # "none" => registry' = registry
       /\ RegistryWellFormed(registry')]_vars

(* register failed for the empty name on a registry that holds an entry    *)
C23_Witness ==
    /\ last_call.op = "register"
    /\ last_call.err = "ValueError: invalid name"
    /\ \E category \in CategorySet : registry[category] # EmptyDict

(* the error load_plugin_from_path is to raise for the file at path when   *)
(* the registry is reg: the cause of the first step that fails             *)
PathFailure(path, reg) ==
    LET file == FileAt(path)
    IN  IF ~file.exists THEN "PluginLoadError: not found"
        ELSE IF path.ext # ".py" THEN "PluginLoadError: must be a .py file"
        ELSE IF ~file.exec_ok THEN "PluginLoadError: error executing"
        ELSE IF ~file.has_register THEN "PluginLoadError: must define register"
        ELSE IF CallRegister(file.calls, file.raises, reg).err # "none"
        THEN "PluginLoadError: error in register"
        ELSE "none"

(* C24: a call of load_plugin_from_path that fails at any step (file       *)
(* missing, not a .py file, top-level code raising, register missing,      *)
(* register raising) raises a PluginLoadError naming that step's cause and *)
(* no error of another kind; a call in which no step fails raises nothing. *)
C24_PathFailuresAreWrapped ==
    [][DirectCall("load_from_path") =>
          /\ last_call'.err \in PluginLoadErrors \cup {"none"}
          /\ last_call'.err = PathFailure(last_call'.path, registry)]_vars

(* the example plugin is loaded a second time: its register raises the     *)
(* registry's duplicate error, which the loader raises as PluginLoadError  *)
C24_Witness ==
    /\ last_call.op = "load_from_path"
    /\ last_call.path = ExamplePluginPath
    /\ last_call.err = "PluginLoadError: error in register"
    /\ Has(registry, "stage", "custom_hello")

(* the failures of load_plugin_from_path that come after the module was    *)
(* entered into sys.modules                                                *)
FailuresAfterEntry ==
    {"PluginLoadError: error executing", "PluginLoadError: must define register",
     "PluginLoadError: error in register"}

(* C25: after a call of load_plugin_from_path that failed with an          *)
(* execution error, a missing register or a register that raised, the      *)
(* unit name of the file has no entry in sys.modules.                      *)
C25_FailedLoadIsEvicted ==
    (last_call.op = "load_from_path" /\ last_call.err \in FailuresAfterEntry)
        => FullModuleName(last_call.path) \notin DOMAIN sys_modules

(* the plugin whose register raises has failed to load and its module is   *)
(* in sys.modules                                                          *)
C25_Witness ==
    /\ last_call.op = "load_from_path"
    /\ last_call.path = RegisterRaisesPath
    /\ last_call.err = "PluginLoadError: error in register"
    /\ FullModuleName(RegisterRaisesPath) \in DOMAIN sys_modules
    /\ sys_modules[FullModuleName(RegisterRaisesPath)] = RegisterRaisesPath

(* C26: a call of load_plugin_from_path, whether it succeeds or fails,     *)
(* leaves the sys.modules entry of every other plugin file loaded before   *)
(* as it was: no two different files get the same unit name.               *)
C26_UnitNamesNeverCollide ==
    [][DirectCall("load_from_path") =>
          \A m \in DOMAIN sys_modules :
              sys_modules[m] # last_call'.path
                  => /\ m # FullModuleName(last_call'.path)
                     /\ m \in DOMAIN sys_modules'
                     /\ sys_modules'[m] = sys_modules[m]]_vars

(* the encoder plugin was loaded, then the file of the same base name in   *)
(* another directory failed to load, and the encoder plugin's module is no *)
(* longer in sys.modules                                                   *)
C26_Witness ==
    /\ last_call.op = "load_from_path"
    /\ last_call.path = NoRegisterPath
    /\ last_call.err = "PluginLoadError: must define register"
    /\ Has(registry, "encoder", "test_enc")
    /\ FullModuleName(EncoderPluginPath) \notin DOMAIN sys_modules

(* C27: a call of load_plugin_from_package raises nothing but a            *)
(* PluginLoadError, whichever step fails, and a call that raises nothing   *)
(* returns the package name.                                               *)
C27_PackageFailuresAreWrapped ==
    last_call.op = "load_from_package" =>
        /\ last_call.err \in PluginLoadErrors \cup {"none"}
        /\ last_call.err = "none" => last_call.name = <<last_call.package>>

(* the package whose top-level code raises was loaded and the caller got   *)
(* the package's own error                                                 *)
C27_Witness ==
    /\ last_call.op = "load_from_package"
    /\ last_call.package = BrokenPackage
    /\ last_call.err = "RuntimeError"

(* the outcome of loading one descriptor by the function its field names   *)
DescriptorOutcome(plugin_cfg, reg, mods) ==
    IF "path" \in DOMAIN plugin_cfg
    THEN LoadPluginFromPath(plugin_cfg.path, reg, mods)
    ELSE IF "package" \in DOMAIN plugin_cfg
    THEN LoadPluginFromPackage(plugin_cfg.package, reg, mods)
    ELSE [err |-> "PluginLoadError: must have path or package",
          name |-> <<>>, reg |-> reg, mods |-> mods]

(* the outcome of the n-th descriptor, loaded after the n-1 before it *)
RECURSIVE AfterLoading(_, _, _, _)
AfterLoading(plugin_configs, n, reg, mods) ==
    IF n = 0
    THEN [err |-> "none", name |-> <<>>, reg |-> reg, mods |-> mods]
    ELSE LET prev == AfterLoading(plugin_configs, n - 1, reg, mods)
         IN  DescriptorOutcome(plugin_configs[n], prev.reg, prev.mods)

(* the registry calls that the plugin of a descriptor makes *)
CallsOf(plugin_cfg) ==
    IF "path" \in DOMAIN plugin_cfg THEN FileAt(plugin_cfg.path).calls
    ELSE IF "package" \in DOMAIN plugin_cfg THEN PackageAt(plugin_cfg.package).calls
    ELSE <<>>

(* C28: a call of load_plugins loads the descriptors in list order, each   *)
(* by the loader of the field it has, and a descriptor with neither field  *)
(* fails with a PluginLoadError. At the first descriptor that fails the    *)
(* call raises that descriptor's error: the registry and sys.modules are   *)
(* as that descriptor's load left them, so nothing of a later descriptor   *)
(* is loaded and what the earlier ones registered is still registered.     *)
(* When none fails the call returns the loaded names in descriptor order.  *)
C28_LoadManyInOrder ==
    [][DirectCall("load_plugins") =>
          LET cs == last_call'.configs
              Out(n) == AfterLoading(cs, n, registry, sys_modules)
              first == {n \in 1..Len(cs) :
                           /\ Out(n).err # "none"
                           /\ \A m \in 1..(n - 1) : Out(m).err = "none"}
          IN  IF first = {}
              THEN /\ last_call'.err = "none"
                   /\ last_call'.loaded = [n \in 1..Len(cs) |-> Out(n).name]
                   /\ registry' = Out(Len(cs)).reg
                   /\ sys_modules' = Out(Len(cs)).mods
              ELSE \A k \in first :
                   /\ last_call'.err = Out(k).err
                   /\ DOMAIN cs[k] \cap {"path", "package"} = {}
                         => last_call'.err = "PluginLoadError: must have path or package"
                   /\ registry' = Out(k).reg
                   /\ sys_modules' = Out(k).mods
                   /\ \A m \in 1..(k - 1) : \A c \in Range(CallsOf(cs[m])) :
                         Has(registry', c.category, c.name)]_vars

(* load_plugins loaded the example plugin, then failed at the second       *)
(* descriptor, and the example plugin's stage is registered                *)
C28_Witness ==
    /\ last_call.op = "load_plugins"
    /\ Len(last_call.configs) = 2
    /\ last_call.configs[1] = [path |-> ExamplePluginPath]
    /\ last_call.err \in PluginLoadErrors
    /\ Has(registry, "stage", "custom_hello")
    /\ ~Has(registry, "encoder", "esmfold")

(* the stage that the example plugin registers *)
PluginStage == "custom_hello"

PluginConfigured == [path |-> ExamplePluginPath] \in Range(ConfiguredPlugins)

ListsPluginStage ==
    \E n \in StageIndices : Enabled(n) /\ Stages[n].name = PluginStage

(* run() has ended, and not inside the loading of the plugins or of the    *)
(* built-in stages                                                         *)
EndedAfterLoading == pc = "returned" \/ (pc = "raised" /\ error = "TypeError")

(* stage spec n's run was called with a dict and returned a dict that has  *)
(* every key of it with the same value                                     *)
KeptContext(n) ==
    /\ stage_state[n] = "succeeded"
    /\ passed[n].called /\ passed[n].ctx.isdict
    /\ returned_by[n].called /\ returned_by[n].ctx.isdict
    /\ \A k \in DOMAIN passed[n].ctx.d :
          /\ k \in DOMAIN returned_by[n].ctx.d
          /\ returned_by[n].ctx.d[k] = passed[n].ctx.d[k]

OthersKeepContext ==
    \A n \in StageIndices :
        (Enabled(n) /\ Stages[n].name # PluginStage) => KeptContext(n)

PluginStageRan ==
    /\ pc = "returned"
    /\ HasKey(context, OutputKey("CustomStage"))
    /\ context.d[OutputKey("CustomStage")] = OutputValue("CustomStage")
    /\ OHas(PipelineResults, PluginStage)
    /\ OGet(PipelineResults, PluginStage).status = "success"

SomeStageFailed ==
    \E n \in 1..Len(PipelineResults) : PipelineResults[n].v.status = "failed"

C31_DryRunValidates ==
    (dry_run /\ pc = "returned" /\ enabled_stages # <<>>) =>
        /\ validated = enabled_stages
        /\ \A n \in StageIndices : ~passed[n].called

(* a dry run with enabled stages returned without validating any stage     *)
C31_Witness ==
    /\ dry_run /\ pc = "returned"
    /\ enabled_stages # <<>>
    /\ validated = <<>> /\ issues = <<>>
    /\ \A n \in StageIndices : ~passed[n].called

(* now is the object given, as it was or after in-place writes: no key of  *)
(* it is gone or reset                                                     *)
SameObject(given, now) ==
    \/ now = given
    \/ /\ given.isdict /\ now.isdict
       /\ \A k \in DOMAIN given.d : k \in DOMAIN now.d /\ now.d[k] = given.d[k]

(* C35: when a stage fails, at resolution the context is unchanged and in  *)
(* its run the context is still the object passed to the stage, with what  *)
(* the stage wrote in place before raising; the loop changes nothing of it *)
(* before the next stage, whose run is called with exactly that context.   *)
C35_FailureKeepsContext ==
    [][/\ \A n \in StageIndices :
            (stage_state[n] # "failed" /\ stage_state'[n] = "failed") =>
                IF passed[n].called
                THEN SameObject(passed[n].ctx, context')
                ELSE context' = context
       /\ pc = "next_stage" => context' = context
       /\ (pc = "resolving" /\ pc' = "running") =>
             /\ context' = context
             /\ passed'[enabled_stages[idx]].ctx = context
       /\ \A i \in 1..(Len(enabled_stages) - 1) :
             LET n == enabled_stages[i]
                 m == enabled_stages[i + 1]
             IN  (stage_state[n] = "failed" /\ passed[n].called /\ passed[m].called)
                    => SameObject(passed[n].ctx, passed[m].ctx)]_vars

(* a stage wrote its key and raised under continue, and the next stage's   *)
(* run was called with the seeded context plus that key                    *)
C35_Witness ==
    \E i \in 1..(Len(enabled_stages) - 1) :
        LET n == enabled_stages[i]
            m == enabled_stages[i + 1]
        IN  /\ stage_state[n] = "failed" /\ passed[n].called /\ passed[m].called
            /\ HasKey(passed[n].ctx, "stage_params")
            /\ ~HasKey(passed[n].ctx, "data_dir")
            /\ HasKey(passed[m].ctx, "data_dir")
            /\ HasKey(passed[m].ctx, "stage_params")

(* the keys that seeding writes for the configured pipeline *)
SeededKeys ==
    {"config_path", "stage_params"} \cup
    (IF DictGet(pipeline_config, "hydra_overrides", <<>>) # <<>>
     THEN {"hydra_overrides"} ELSE {})

(* C40: when a dry run with at least one enabled stage has returned, the   *)
(* keys of the context are those it had when run() was called and the      *)
(* seeded keys config_path, stage_params and (if configured)               *)
(* hydra_overrides, and every key that is not a seeded key has the value   *)
(* it had when run() was called.                                           *)
C40_DryRunSeedsOnly ==
    (dry_run /\ pc = "returned" /\ enabled_stages # <<>>) =>
        /\ context.isdict
        /\ DOMAIN context.d = (DOMAIN entry_context.d) \cup SeededKeys
        /\ \A k \in (DOMAIN entry_context.d) \ SeededKeys :
              context.d[k] = entry_context.d[k]

(* a dry run with an enabled stage returned the context the command line   *)
(* had filled, with the three seeded keys added                            *)
C40_Witness ==
    /\ dry_run /\ pc = "returned" /\ enabled_stages # <<>>
    /\ HasKey(entry_context, "checkpoint_path")
    /\ HasKey(context, "checkpoint_path")
    /\ HasKey(context, "hydra_overrides")
    /\ ~HasKey(entry_context, "config_path")

(* stage spec n's attempt is over *)
Finished(n) == stage_state[n] \in {"succeeded", "failed"}

(* the last stage spec named name whose attempt is over, 0 if none *)
LastFinished(name) ==
    LET done == {n \in StageIndices : Stages[n].name = name /\ Finished(n)}
    IN  IF done = {} THEN 0 ELSE CHOOSE n \in done : \A j \in done : j <= n

(* C37: the result map has one entry per stage name, which holds the       *)
(* outcome of the last attempt of that name; so when every name's last     *)
(* attempt succeeded the returned pipeline_results has no failed entry and *)
(* the command line exits with status 0, whatever earlier attempts of the  *)
(* same names did.                                                         *)
C37_LastAttemptWins ==
    /\ \A a, b \in 1..Len(results) : results[a].k = results[b].k => a = b
    /\ \A name \in StageNames :
          LET last == LastFinished(name)
          IN  /\ OHas(results, name) <=> last # 0
              /\ last # 0 =>
                    OGet(results, name).status
                       = (IF stage_state[last] = "succeeded" THEN "success" ELSE "failed")
    /\ (pc = "exited" /\ document_exists /\ error = "none"
          /\ \A name \in StageNames :
                LastFinished(name) # 0 => stage_state[LastFinished(name)] = "succeeded")
          => ~SomeStageFailed /\ exit_status = 0

(* the first attempt of a name failed under continue, the second attempt   *)
(* of the same name succeeded, and the command line exited with status 0   *)
C37_Witness ==
    /\ pc = "exited" /\ exit_status = 0
    /\ \E n, m \in StageIndices :
          /\ n < m /\ Stages[n].name = Stages[m].name
          /\ stage_state[n] = "failed" /\ OnFailure(n) = "continue"
          /\ stage_state[m] = "succeeded"
    /\ Len(PipelineResults) = 1
    /\ PipelineResults[1].v.status = "success"

(* C36: a stage that fails is recorded as failed; if its on_failure is     *)
(* abort (given or by default) the loop ends there and the next enabled    *)
(* stage is never attempted; for any other value, continue or a token the  *)
(* code does not know, the loop moves on and the next enabled stage is     *)
(* attempted by the end of the loop.                                       *)
C36_OnlyAbortStops ==
    [][/\ \A n \in StageIndices :
            (stage_state[n] # "failed" /\ stage_state'[n] = "failed") =>
                /\ OHas(results', Stages[n].name)
                /\ OGet(results', Stages[n].name).status = "failed"
                /\ IF OnFailure(n) = "abort" \/ idx = Len(enabled_stages)
                   THEN pc' = "summary" /\ idx' = idx
                   ELSE pc' = "next_stage" /\ idx' = idx + 1
       /\ LoopOver =>
             \A i \in 1..(Len(enabled_stages) - 1) :
                 LET n == enabled_stages[i]
                     m == enabled_stages[i + 1]
                 IN  stage_state[n] = "failed" =>
                        (Attempted(m) <=> OnFailure(n) # "abort")]_vars

(* a stage whose on_failure is the unknown token retry failed, and the     *)
(* next enabled stage was attempted and succeeded                          *)
C36_Witness ==
    /\ pc = "returned"
    /\ Len(enabled_stages) = 2
    /\ OnFailure(enabled_stages[1]) = "retry"
    /\ stage_state[enabled_stages[1]] = "failed"
    /\ stage_state[enabled_stages[2]] = "succeeded"
    /\ Len(PipelineResults) = 2

(* what the last loader call, of one plugin, was asked to load *)
UnitLoaded(call) ==
    IF call.op = "load_from_path" THEN FileAt(call.path) ELSE PackageAt(call.package)

(* C39: when a plugin's register makes registrations that succeed and then *)
(* raises, load_plugin_from_path and load_plugin_from_package raise        *)
(* PluginLoadError and every registration made is in the registry          *)
(* afterwards; no failed load of one plugin removes an entry.              *)
C39_LoadIsNotAtomic ==
    [][(DirectCall("load_from_path") \/ DirectCall("load_from_package")) =>
          LET unit == UnitLoaded(last_call')
          IN  /\ (/\ unit.exists /\ unit.exec_ok /\ unit.has_register /\ unit.raises
                  /\ \A c \in Range(unit.calls) : ~Has(registry, c.category, c.name))
                    => /\ last_call'.err = "PluginLoadError: error in register"
                       /\ \A c \in Range(unit.calls) :
                             /\ Has(registry', c.category, c.name)
                             /\ registry'[c.category][c.name] = c.cls
              /\ \A category \in CategorySet : \A name \in DOMAIN registry[category] :
                    /\ name \in DOMAIN registry'[category]
                    /\ registry'[category][name] = registry[category][name]]_vars

(* the plugin that registers an encoder and then raises failed to load and *)
(* its encoder is registered                                               *)
C39_Witness ==
    /\ last_call.op = "load_from_path"
    /\ last_call.path = PartialPluginPath
    /\ last_call.err = "PluginLoadError: error in register"
    /\ Has(registry, "encoder", "partial_enc")

(* an enabled stage spec named stage_b *)
ListsStageB == \E n \in StageIndices : Enabled(n) /\ Stages[n].name = "stage_b"

BuiltinNames == {BuiltinStages[n].name : n \in 1..Len(BuiltinStages)}

(* C32: the import of pipeline.stages in run() does not fail, after it     *)
(* every built-in stage name is registered under category stage, whatever  *)
(* was done to the registry before, and in a later run() call it leaves    *)
(* the registry as it was.                                                 *)
C32_BootstrapIsIdempotent ==
    [][(pc = "plugins_loaded" /\ pc' # pc) =>
          /\ pc' = "stages_imported"
          /\ \A name \in BuiltinNames : Has(registry', "stage", name)
          /\ (runs > 0 => registry' = registry)]_vars

(* the second run() has imported pipeline.stages, whose modules the first  *)
(* run() left in sys.modules, and setup_data, unregistered or cleared      *)
(* between the two, is not registered                                      *)
C32_Witness ==
    /\ runs = 1
    /\ pc = "stages_imported"
    /\ stages_imported = BuiltinNames
    /\ ~Has(registry, "stage", "setup_data")

(* the example plugin is configured and one of the names its register()    *)
(* registers is in the registry                                            *)
PluginNameTaken(reg) ==
    \E n \in 1..Len(ExamplePluginRegister) :
        Has(reg, ExamplePluginRegister[n].category, ExamplePluginRegister[n].name)

(* the example plugin is listed more than once in the configuration *)
PluginListedTwice ==
    Cardinality({n \in 1..Len(ConfiguredPlugins) :
                    ConfiguredPlugins[n] = [path |-> ExamplePluginPath]}) > 1

(* the load of the example plugin meets a name of its own in the registry  *)
SecondLoad == PluginNameTaken(registry) \/ PluginListedTwice

(* C38: every run() call loads the configured plugins first, also when no  *)
(* stage is enabled. With the example plugin configured, whose register()  *)
(* registers without overwrite, the load fails with PluginLoadError when   *)
(* one of its names is registered already, as after an earlier run() or    *)
(* an earlier load of the same file in this run(), and run() ends there:   *)
(* no stage is resolved, validated or run; when its names were             *)
(* unregistered or never registered, the load registers them.              *)
C38_ReloadFails ==
    [][/\ (pc \in {"constructed", "injected"} /\ pc' \notin {"constructed", "injected"}) =>
             /\ (PluginConfigured /\ SecondLoad) =>
                   /\ pc' = "raised"
                   /\ error' = "PluginLoadError: error in register"
                   /\ NoStageTouched' /\ enabled_stages' = <<>>
                   /\ context' = context
             /\ (PluginConfigured /\ ~SecondLoad) =>
                   /\ pc' = "plugins_loaded"
                   /\ \A n \in 1..Len(ExamplePluginRegister) :
                         Has(registry', ExamplePluginRegister[n].category,
                             ExamplePluginRegister[n].name)
             /\ ~PluginConfigured => /\ pc' = "plugins_loaded"
                                     /\ registry' = registry
       /\ (pc' = "raised" /\ pc # "raised" /\ error' = "PluginLoadError: error in register")
             => PluginConfigured /\ SecondLoad]_vars

(* the second run() of a pipeline with the example plugin and no enabled   *)
(* stage has raised PluginLoadError, both names of the plugin being         *)
(* registered                                                              *)
C38_Witness ==
    /\ runs = 1
    /\ pc = "raised"
    /\ error = "PluginLoadError: error in register"
    /\ PluginConfigured
    /\ GetEnabledStages(pipeline_config) = <<>>
    /\ Has(registry, "stage", "custom_hello")
    /\ Has(registry, "metric", "avg_seq_length")
    /\ NoStageTouched

(* a call run() made has not come back to it: it hangs, or the loading of  *)
(* the plugins raised                                                      *)
CallDidNotReturn ==
    pc = "hung" \/ (pc = "raised" /\ error \in LoaderErrors)

(* the run of the stage at the loop's position hangs *)
StageHung ==
    /\ pc = "hung"
    /\ idx \in 1..Len(enabled_stages)
    /\ stage_state[enabled_stages[idx]] = "running"

(* none of the enabled stages after the loop's position has been started *)
LaterNotStarted ==
    \A i \in 1..Len(enabled_stages) :
        i > idx => /\ stage_state[enabled_stages[i]] = "pending"
                   /\ ~passed[enabled_stages[i]].called

(* run() comes to an end, by a return or an exception, unless a call hangs *)
RunEndsUnlessHung == <>(pc \in {"returned", "raised", "hung"})

(* C33: run() eventually returns unless a call it makes does not return    *)
(* (the plugin loading, a validate or a run); and from the moment a        *)
(* stage's run hangs, run() stays in that call for ever and no later       *)
(* stage is started.                                                       *)
C33_ReturnsUnlessACallDoesNot ==
    /\ <>(pc = "returned" \/ CallDidNotReturn)
    /\ [](StageHung => [](StageHung /\ LaterNotStarted))

(* every call run() made has returned, the last run returning None, and    *)
(* run() has ended with the TypeError of the item assignment               *)
C33_Witness ==
    /\ pc = "raised" /\ error = "TypeError"
    /\ enabled_stages # <<>>
    /\ \A i \in 1..Len(enabled_stages) :
          stage_state[enabled_stages[i]] = "succeeded"
    /\ ~context.isdict

====
